---------------------------- MODULE Spec2Model ----------------------------
(***************************************************************************)
(* A model of the core components of the Elicit diagnostic collection      *)
(* system: the Rule text engine (models/rule.py, utils/conversion_utils.py)*)
(* the DiagnosticPathway graph (models/diagnostic_pathway.py,              *)
(* models/diagnostic_node.py), the recent searches of the SearchService    *)
(* (services/search_service.py) and the import of rules into a Collection  *)
(* (models/collection.py).                                                 *)
(*                                                                         *)
(* Python strings are modelled as sequences of one-character strings, so   *)
(* that formatting, searching, splitting and stripping are computed and    *)
(* not assumed.  A Python dict that is iterated (DiagnosticPathway.nodes)  *)
(* is a sequence of records in insertion order.  Timestamps                *)
(* (created_date, last_modified_date), the scoring of search results and   *)
(* the search counts, and the indices of a Collection are not part of the  *)
(* model.                                                                  *)
(***************************************************************************)
EXTENDS Integers, Sequences, FiniteSets, TLC

VARIABLES
    text,         \* Rule.text
    conditions,   \* Rule.conditions
    actions,      \* Rule.actions
    nodes,        \* DiagnosticPathway.nodes, in insertion order
    connections,  \* DiagnosticPathway.connections
    issued,       \* number of node ids handed out so far (uuid4 never repeats)
    last,         \* the most recent call: its name, arguments and result
    before,       \* history: the pathway before the latest successful
                  \* connect_nodes, until another call than its undoing
                  \* disconnect_nodes is made
    recent_searches,  \* SearchService.recent_searches
    rules,        \* Collection.rules: the stored rule of each rule id
    copy          \* the pathway returned by DiagnosticPathway.duplicate()

vars == <<text, conditions, actions, nodes, connections, issued, last, before,
          recent_searches, rules, copy>>

ruleVars == <<text, conditions, actions>>
pathwayVars == <<nodes, connections, issued, before, copy>>
serviceVars == <<recent_searches, rules>>

(***************************************************************************)
(* Bounds of the model.                                                    *)
(***************************************************************************)
MaxItems == 3
MaxSeqActions == 3
MaxIds == 2
MaxEdges == 2
MaxSegmentLen == 3
MaxMoves == 1
MaxImport == 2
MaxConvertEdges == 3
MaxCycleEdges == 4
MaxTokens == 3

(***************************************************************************)
(* DiagnosticPathway.layout_settings and the node height of the layout.    *)
(***************************************************************************)
column_width == 250
node_margin == 20
column_margin == 50
initial_x == 50
initial_y == 50
NodeHeight == 120
LayoutNodeHeight == 120

(***************************************************************************)
(* Python str and list primitives on sequences of characters.              *)
(***************************************************************************)
Whitespace == {" ", "\n", "\t", "\r"}

Digits == <<"0","1","2","3","4","5","6","7","8","9">>

Range(s) == {s[i] : i \in DOMAIN s}

\* s[i:] with a 1-based first index
From(s, i) == SubSeq(s, i, Len(s))

MatchAt(s, sub, i) ==
    /\ i + Len(sub) - 1 <= Len(s)
    /\ \A k \in 1..Len(sub) : s[i + k - 1] = sub[k]

\* str.find: the 1-based index of the first occurrence, 0 when there is none
Find(s, sub) ==
    LET hits == {i \in 1..Len(s) : MatchAt(s, sub, i)}
    IN  IF hits = {} THEN 0 ELSE CHOOSE i \in hits : \A j \in hits : i <= j

\* sub in s
Contains(s, sub) == Find(s, sub) # 0

\* s.startswith(sub)
StartsWith(s, sub) == MatchAt(s, sub, 1)

\* s.split(sep): the pieces between the non-overlapping occurrences, left to right
RECURSIVE Split(_, _)
Split(s, sep) ==
    LET i == Find(s, sep)
    IN  IF i = 0 THEN <<s>>
        ELSE <<SubSeq(s, 1, i - 1)>> \o Split(From(s, i + Len(sep)), sep)

\* s.split(sep, 1)
SplitOnce(s, sep) ==
    LET i == Find(s, sep)
    IN  IF i = 0 THEN <<s>>
        ELSE <<SubSeq(s, 1, i - 1), From(s, i + Len(sep))>>

\* sep.join(parts)
RECURSIVE Join(_, _)
Join(parts, sep) ==
    IF parts = <<>> THEN <<>>
    ELSE IF Len(parts) = 1 THEN parts[1]
    ELSE parts[1] \o sep \o Join(Tail(parts), sep)

\* s.replace(old, new)
Replace(s, old, new) == Join(Split(s, old), new)

\* s.strip()
Strip(s) ==
    LET keep == {i \in 1..Len(s) : s[i] \notin Whitespace}
    IN  IF keep = {} THEN <<>>
        ELSE SubSeq(s, CHOOSE i \in keep : \A j \in keep : i <= j,
                       CHOOSE i \in keep : \A j \in keep : j <= i)

\* c.isdigit()
IsDigit(c) == c \in Range(Digits)

DigitValue(c) == (CHOOSE d \in 1..10 : Digits[d] = c) - 1

\* the decimal text of n >= 0, as an f-string prints it
RECURSIVE IntToStr(_)
IntToStr(n) ==
    IF n < 10 THEN <<Digits[n + 1]>>
    ELSE IntToStr(n \div 10) \o <<Digits[(n % 10) + 1]>>

RECURSIVE DigitsValue(_)
DigitsValue(s) ==
    IF s = <<>> THEN 0
    ELSE 10 * DigitsValue(SubSeq(s, 1, Len(s) - 1)) + DigitValue(s[Len(s)])

\* int(s) for a text that starts with a digit: surrounding whitespace is
\* ignored and single underscores may separate digits; ok is FALSE where
\* Python raises ValueError
ParseInt(s) ==
    LET t == Strip(s)
        wellFormed ==
            /\ t # <<>>
            /\ IsDigit(t[1]) /\ IsDigit(t[Len(t)])
            /\ \A i \in 1..Len(t) : IsDigit(t[i]) \/ t[i] = "_"
            /\ \A i \in 1..(Len(t) - 1) : ~(t[i] = "_" /\ t[i + 1] = "_")
    IN  IF wellFormed
        THEN [ok |-> TRUE, val |-> DigitsValue(SelectSeq(t, IsDigit))]
        ELSE [ok |-> FALSE, val |-> 0]

(***************************************************************************)
(* Rule text generation.                                                   *)
(***************************************************************************)
\* tokens that always spell out the operator and the value
ConditionTokens_full(condition, lastCondition) ==
    LET body == condition.param \o <<" ">> \o condition.operator
                    \o <<" ">> \o condition.value
    IN  IF condition # lastCondition /\ condition.connector # <<>>
        THEN <<body, condition.connector>>
        ELSE <<body>>

\* one condition's tokens: the condition itself and, when it is not equal to
\* the last condition (dict inequality) and its connector is non-empty, the
\* connector
ConditionTokens(condition, lastCondition) ==
    LET body == IF condition.operator = <<"=">> /\ condition.value = <<"t","r","u","e">>
                THEN condition.param
                ELSE condition.param \o <<" ">> \o condition.operator
                         \o <<" ">> \o condition.value
    IN  IF condition # lastCondition /\ condition.connector # <<>>
        THEN <<body, condition.connector>>
        ELSE <<body>>

RECURSIVE IfConditions(_, _)
IfConditions(conds, lastCondition) ==
    IF conds = <<>> THEN <<>>
    ELSE ConditionTokens(Head(conds), lastCondition)
             \o IfConditions(Tail(conds), lastCondition)

\* list.insert keeping the order by sequence, after every entry with an
\* equal sequence
RECURSIVE InsertBySequence(_, _)
InsertBySequence(sorted, a) ==
    IF sorted = <<>> THEN <<a>>
    ELSE IF Head(sorted).sequence <= a.sequence
         THEN <<Head(sorted)>> \o InsertBySequence(Tail(sorted), a)
         ELSE <<a>> \o sorted

\* sorted(actions, key=lambda x: x.get("sequence", 1)): a stable sort
RECURSIVE SortedBySequence(_)
SortedBySequence(acts) ==
    IF acts = <<>> THEN <<>>
    ELSE InsertBySequence(SortedBySequence(SubSeq(acts, 1, Len(acts) - 1)),
                          acts[Len(acts)])

ActionText(action) ==
    action.type \o <<" ">> \o action.target
        \o (IF action.value # <<>> THEN <<" ","t","o"," ">> \o action.value ELSE <<>>)

\* printing the stored sequence instead of the rank
DisplayIndex_stored(i, action) == action.sequence

\* the number printed before the i-th listed action
DisplayIndex(i, action) == i

RECURSIVE ThenLines(_, _)
ThenLines(sortedActions, i) ==
    IF i > Len(sortedActions) THEN <<>>
    ELSE <<"\n"," "," ">> \o IntToStr(DisplayIndex(i, sortedActions[i])) \o <<"."," ">>
             \o ActionText(sortedActions[i]) \o ThenLines(sortedActions, i + 1)

\* Rule._update_rule_text: the text it assigns to self.text
update_rule_text(conds, acts) ==
    LET if_conditions == IfConditions(conds,
                             IF conds = <<>> THEN <<>> ELSE conds[Len(conds)])
        if_part == <<"I","F"," ">> \o Join(if_conditions, <<" ">>)
        then_part == <<"T","H","E","N">> \o ThenLines(SortedBySequence(acts), 1)
    IN  if_part \o <<",","\n">> \o then_part

\* conversion_utils.generate_rule_text
generate_rule_text(conds, acts) ==
    LET if_conditions == IfConditions(conds,
                             IF conds = <<>> THEN <<>> ELSE conds[Len(conds)])
        if_part == <<"I","F"," ">> \o Join(if_conditions, <<" ">>)
        then_part == <<"T","H","E","N">> \o ThenLines(SortedBySequence(acts), 1)
    IN  if_part \o <<",","\n">> \o then_part

(***************************************************************************)
(* Rule text parsing.                                                      *)
(***************************************************************************)
\* sorted(operators, key=len, reverse=True): longest first, equal lengths in
\* the order of the list ["=", ">", "<", ">=", "<=", "!=", "contains"]
\* the operators in the order of the list, not sorted by length
OperatorsLongestFirst_asListed ==
    << <<"=">>, <<">">>, <<"<">>, <<">","=">>, <<"<","=">>, <<"!","=">>, <<"c","o","n","t","a","i","n","s">> >>

OperatorsLongestFirst ==
    << <<"c","o","n","t","a","i","n","s">>, <<">","=">>, <<"<","=">>, <<"!","=">>, <<"=">>, <<">">>, <<"<">> >>

\* sorted(action_types, key=len, reverse=True)
ActionTypesLongestFirst ==
    << <<"R","e","p","l","a","c","e">>, <<"M","e","a","s","u","r","e">>, <<"R","e","s","t","a","r","t">>, <<"C","o","n","t","a","c","t">>, <<"A","d","j","u","s","t">>,
       <<"A","p","p","l","y">>, <<"C","l","e","a","n">>, <<"C","h","e","c","k">> >>

\* Rule._parse_condition; none is TRUE where it returns None
parse_condition(segment) ==
    LET t == Strip(segment)
        found == {k \in DOMAIN OperatorsLongestFirst :
                      Contains(t, OperatorsLongestFirst[k])}
    IN  IF t = <<>> THEN [none |-> TRUE]
        ELSE IF found # {}
        THEN LET k == CHOOSE k \in found : \A j \in found : k <= j
                 op == OperatorsLongestFirst[k]
                 parts == SplitOnce(t, op)
             IN  [none |-> FALSE, param |-> Strip(parts[1]), operator |-> op,
                  value |-> Strip(parts[2]), connector |-> <<>>]
        ELSE [none |-> FALSE, param |-> t, operator |-> <<"=">>,
              value |-> <<"t","r","u","e">>, connector |-> <<>>]

\* Rule._parse_action; none is TRUE where it returns None
parse_action(body, sequence) ==
    LET t == Strip(body)
        found == {k \in DOMAIN ActionTypesLongestFirst :
                      StartsWith(t, ActionTypesLongestFirst[k] \o <<" ">>)}
    IN  IF t = <<>> THEN [none |-> TRUE]
        ELSE IF found # {}
        THEN LET k == CHOOSE k \in found : \A j \in found : k <= j
                 action_type == ActionTypesLongestFirst[k]
                 target_value == Strip(From(t, Len(action_type) + 1))
             IN  IF Contains(target_value, <<" ","t","o"," ">>)
                 THEN LET parts == SplitOnce(target_value, <<" ","t","o"," ">>)
                      IN  [none |-> FALSE, type |-> action_type,
                           target |-> Strip(parts[1]), value |-> Strip(parts[2]),
                           sequence |-> sequence]
                 ELSE [none |-> FALSE, type |-> action_type,
                       target |-> target_value, value |-> <<>>,
                       sequence |-> sequence]
        ELSE [none |-> FALSE, type |-> <<"A","p","p","l","y">>, target |-> t,
              value |-> <<>>, sequence |-> sequence]

\* the loop over condition_parts of parse_rule_text
RECURSIVE ParseConditionParts(_, _, _)
ParseConditionParts(parts, i, connector) ==
    IF i > Len(parts) THEN <<>>
    ELSE LET c == parse_condition(parts[i])
         IN  (IF c.none THEN <<>>
              ELSE << [param |-> c.param, operator |-> c.operator,
                       value |-> c.value,
                       connector |-> IF i < Len(parts) THEN connector
                                     ELSE <<>>] >>)
             \o ParseConditionParts(parts, i + 1, connector)

ParseConditions(if_part) ==
    IF Contains(if_part, <<" ","A","N","D"," ">>)
    THEN ParseConditionParts(Split(if_part, <<" ","A","N","D"," ">>), 1, <<"A","N","D">>)
    ELSE IF Contains(if_part, <<" ","O","R"," ">>)
    THEN ParseConditionParts(Split(if_part, <<" ","O","R"," ">>), 1, <<"O","R">>)
    ELSE ParseConditionParts(<<if_part>>, 1, <<>>)

\* one line of the action clause: the sequence prefix and the action
ParseActionLine(rawLine, i) ==
    LET line == Strip(rawLine)
        seq_end == Find(line, <<"."," ">>)
        number == ParseInt(SubSeq(line, 1, seq_end - 1))
        prefixed == IsDigit(line[1]) /\ seq_end # 0 /\ number.ok
    IN  IF line = <<>> THEN [none |-> TRUE]
        ELSE parse_action(IF prefixed THEN From(line, seq_end + 2) ELSE line,
                          IF prefixed THEN number.val ELSE i)

RECURSIVE ParseActionLines(_, _)
ParseActionLines(lines, i) ==
    IF i > Len(lines) THEN <<>>
    ELSE LET a == ParseActionLine(lines[i], i)
         IN  (IF a.none THEN <<>>
              ELSE << [type |-> a.type, target |-> a.target,
                       value |-> a.value, sequence |-> a.sequence] >>)
             \o ParseActionLines(lines, i + 1)

\* whether parse_rule_text takes the IF-THEN branch
Parseable(t) ==
    LET rule_text == Strip(t)
    IN  /\ rule_text # <<>>
        /\ Contains(rule_text, <<"I","F"," ">>)
        /\ Contains(rule_text, <<","," ","T","H","E","N">>)

ParsedConditions(t) ==
    ParseConditions(Replace(Split(Strip(t), <<","," ","T","H","E","N">>)[1], <<"I","F"," ">>, <<>>))

ParsedActions(t) ==
    ParseActionLines(Split(Strip(Split(Strip(t), <<","," ","T","H","E","N">>)[2]), <<"\n">>), 1)

(***************************************************************************)
(* The Rule object: its constructor and mutators.                          *)
(***************************************************************************)
\* the value of `last` for a call with up to two arguments
Call(op, a, b, ret) == [op |-> op, a |-> a, b |-> b, ret |-> ret]

\* an optional argument: None, or a given value
NoneArg == [given |-> FALSE, val |-> 0]
Given(v) == [given |-> TRUE, val |-> v]

\* Rule.__init__(text=t): text or "", no conditions, no actions
RuleInit(t) ==
    /\ text = t
    /\ conditions = <<>>
    /\ actions = <<>>

\* Rule.set_conditions
set_conditions(conds) ==
    /\ conditions' = conds
    /\ text' = update_rule_text(conds, actions)
    /\ last' = Call("set_conditions", 0, 0, FALSE)
    /\ UNCHANGED <<actions, pathwayVars, serviceVars>>

\* set_actions that stores the list and leaves the text as it was
set_actions_stale(acts) ==
    /\ actions' = acts
    /\ last' = Call("set_actions", 0, 0, FALSE)
    /\ UNCHANGED <<text, conditions, pathwayVars, serviceVars>>

\* Rule.set_actions
set_actions(acts) ==
    /\ actions' = acts
    /\ text' = update_rule_text(conditions, acts)
    /\ last' = Call("set_actions", 0, 0, FALSE)
    /\ UNCHANGED <<conditions, pathwayVars, serviceVars>>

\* add_condition that leaves the connectors as they were given
add_condition_plain(param, operator, value, connector) ==
    /\ conditions' = Append(conditions,
                         [param |-> param, operator |-> operator,
                          value |-> value, connector |-> connector])
    /\ text' = update_rule_text(conditions', actions)
    /\ last' = Call("add_condition", 0, connector, FALSE)
    /\ UNCHANGED <<actions, pathwayVars, serviceVars>>

\* Rule.add_condition
add_condition(param, operator, value, connector) ==
    LET appended == Append(conditions,
                        [param |-> param, operator |-> operator,
                         value |-> value, connector |-> connector])
        n == Len(appended)
        relinked == [i \in 1..n |->
                        IF i = n THEN [appended[i] EXCEPT !.connector = <<>>]
                        ELSE IF i = n - 1
                        THEN [appended[i] EXCEPT !.connector = connector]
                        ELSE appended[i]]
    IN  /\ conditions' = relinked
        /\ text' = update_rule_text(relinked, actions)
        /\ last' = Call("add_condition", 0, connector, FALSE)
        /\ UNCHANGED <<actions, pathwayVars, serviceVars>>

\* max(action.get("sequence", 0) for action in self.actions)
MaxSequence(acts) ==
    CHOOSE m \in {acts[i].sequence : i \in DOMAIN acts} :
        \A i \in DOMAIN acts : acts[i].sequence <= m

\* Rule.add_action
add_action(target, action_type, value, sequence) ==
    LET seq == IF sequence.given THEN sequence.val
               ELSE IF actions # <<>> THEN MaxSequence(actions) + 1
               ELSE 1
        appended == Append(actions,
                        [type |-> action_type, target |-> target,
                         value |-> value, sequence |-> seq])
    IN  /\ actions' = appended
        /\ text' = update_rule_text(conditions, appended)
        /\ last' = Call("add_action", 0, 0, FALSE)
        /\ UNCHANGED <<conditions, pathwayVars, serviceVars>>

\* parse_rule_text that empties the lists before it looks at the text
parse_rule_text_clearing ==
    /\ IF Parseable(text)
       THEN /\ conditions' = ParsedConditions(text)
            /\ actions' = ParsedActions(text)
            /\ last' = Call("parse_rule_text", 0, 0, TRUE)
       ELSE /\ conditions' = <<>>
            /\ actions' = <<>>
            /\ last' = Call("parse_rule_text", 0, 0, FALSE)
    /\ UNCHANGED <<text, pathwayVars, serviceVars>>

\* Rule.parse_rule_text
parse_rule_text ==
    /\ IF Parseable(text)
       THEN /\ conditions' = ParsedConditions(text)
            /\ actions' = ParsedActions(text)
            /\ last' = Call("parse_rule_text", 0, 0, TRUE)
       ELSE /\ UNCHANGED <<conditions, actions>>
            /\ last' = Call("parse_rule_text", 0, 0, FALSE)
    /\ UNCHANGED <<text, pathwayVars, serviceVars>>

\* one issue of Rule.validate: the message and the number it is formatted
\* with (a position or a sequence number)
RuleIssue(msg, n) == [msg |-> msg, n |-> n]

\* Rule.validate, conditions: a missing parameter, a connector at the end
RECURSIVE ConditionIssues(_, _)
ConditionIssues(conds, i) ==
    IF i > Len(conds) THEN <<>>
    ELSE (IF conds[i].param = <<>>
          THEN << RuleIssue("Condition N is missing a parameter", i) >>
          ELSE <<>>)
         \o (IF i = Len(conds) /\ conds[i].connector # <<>>
             THEN << RuleIssue("Last condition should not have a connector", 0) >>
             ELSE <<>>)
         \o ConditionIssues(conds, i + 1)

\* Rule.validate, actions: a missing target, and a sequence number carried
\* by an action that is not equal (dict inequality) to the action at hand
RECURSIVE ActionIssues(_, _)
ActionIssues(acts, i) ==
    IF i > Len(acts) THEN <<>>
    ELSE (IF acts[i].target = <<>>
          THEN << RuleIssue("Action N is missing a target", i) >>
          ELSE <<>>)
         \o (IF \E k \in DOMAIN acts :
                    acts[k] # acts[i] /\ acts[k].sequence = acts[i].sequence
             THEN << RuleIssue("Duplicate sequence number N", acts[i].sequence) >>
             ELSE <<>>)
         \o ActionIssues(acts, i + 1)

\* Rule.validate: the issues by category (the rule id is never missing)
rule_validate_issues(t, conds, acts) ==
    [conditions |-> IF conds = <<>>
                    THEN << RuleIssue("No conditions defined", 0) >>
                    ELSE ConditionIssues(conds, 1),
     actions |-> IF acts = <<>>
                 THEN << RuleIssue("No actions defined", 0) >>
                 ELSE ActionIssues(acts, 1),
     general |-> IF t = <<>>
                 THEN << RuleIssue("Rule text is empty", 0) >> ELSE <<>>]

rule_validate ==
    /\ last' = Call("Rule.validate", 0, 0,
                    rule_validate_issues(text, conditions, actions))
    /\ UNCHANGED <<ruleVars, pathwayVars, serviceVars>>

(***************************************************************************)
(* The calls a client makes on a Rule, and their arguments.                *)
(***************************************************************************)
InitTexts ==
    { <<>>,
      <<" "," ">>,
      <<"I","F"," ","t">>,
      <<"t",","," ","T","H","E","N"," ","A","p","p","l","y"," ","A">>,
      <<"I","F"," ","t",",","\n","T","H","E","N","\n"," "," ","1","."," ","A","p","p","l","y"," ","A">>,
      <<"I","F"," ","t"," ",">"," ","9"," ","A","N","D"," ","h",","," ","T","H","E","N","\n"," "," ","1","."," ","A","p","p","l","y"," ","A","\n"," "," ","2","."," ","A","d","j","u","s","t"," ","B"," ","t","o"," ","5">> }

Params == { <<"t">> }
OperatorValues == { <<<<"=">>, <<"t","r","u","e">>>>, <<<<">">>, <<"9">>>> }
Connectors == { <<"A","N","D">>, <<"O","R">> }
Targets == { <<"A">>, <<"B">> }
SequenceArgs == { NoneArg, Given(1), Given(2) }

ConditionInputs ==
    { [param |-> p, operator |-> ov[1], value |-> ov[2], connector |-> c] :
        p \in Params, ov \in OperatorValues, c \in { <<"A","N","D">>, <<>> } }

ActionInputs ==
    { [type |-> <<"A","p","p","l","y">>, target |-> t, value |-> <<>>, sequence |-> s.val] :
        t \in Targets, s \in SequenceArgs \ {NoneArg} }

\* every list of at most n elements of S
ListsUpTo(S, n) == UNION { [1..k -> S] : k \in 0..(IF n < 0 THEN 0 ELSE n) }

NoBefore == [kept |-> FALSE, undone |-> FALSE, nodes |-> <<>>, connections |-> <<>>]

\* a SearchService and a Collection after __init__
NoServices == recent_searches = <<>> /\ rules = <<>>

\* no duplicate has been made. The pathway duplicate() returns keeps its own
\* node map; shares tells whether its connections attribute is still the
\* list object of the original, and the connections list of a node it has
\* in common with the original is the list object of the original's node
NoCopy == [made |-> FALSE, shares |-> FALSE, nodes |-> <<>>, connections |-> <<>>]

NoPathway ==
    /\ nodes = <<>>
    /\ connections = <<>>
    /\ issued = 0
    /\ before = NoBefore
    /\ copy = NoCopy

InitRule ==
    /\ \E t \in InitTexts : RuleInit(t)
    /\ NoPathway
    /\ NoServices
    /\ last = Call("init", 0, 0, FALSE)

NextRule ==
    \/ /\ Len(conditions) + Len(actions) < MaxItems
       /\ \E p \in Params, ov \in OperatorValues, c \in Connectors :
              add_condition(p, ov[1], ov[2], c)
    \/ /\ Len(conditions) + Len(actions) < MaxItems
       /\ \E t \in Targets, s \in SequenceArgs :
              add_action(t, <<"A","p","p","l","y">>, <<>>, s)
    \/ \E conds \in ListsUpTo(ConditionInputs, MaxItems - Len(actions)) :
           set_conditions(conds)
    \/ \E acts \in ListsUpTo(ActionInputs, MaxItems - Len(conditions)) :
           set_actions(acts)
    \/ parse_rule_text

SpecRule == InitRule /\ [][NextRule]_vars

(***************************************************************************)
(* A Rule that is only given actions, with sequence numbers that leave     *)
(* gaps and repeat.                                                        *)
(***************************************************************************)
SeqTargets == { <<"A">>, <<"B">>, <<"C">> }
SeqSequenceArgs == { NoneArg, Given(1), Given(3), Given(5) }

InitSeq ==
    /\ RuleInit(<<>>)
    /\ NoPathway
    /\ NoServices
    /\ last = Call("init", 0, 0, FALSE)

NextSeq ==
    /\ Len(actions) < MaxSeqActions
    /\ \E t \in SeqTargets, s \in SeqSequenceArgs :
           add_action(t, <<"A","p","p","l","y">>, <<>>, s)

SpecSeq == InitSeq /\ [][NextSeq]_vars

(***************************************************************************)
(* Claims about the Rule text engine.                                      *)
(***************************************************************************)
SameTriples(a, b) ==
    /\ Len(a) = Len(b)
    /\ \A i \in DOMAIN a :
           /\ a[i].param = b[i].param
           /\ a[i].operator = b[i].operator
           /\ a[i].value = b[i].value

\* C1: whenever the rule's text is the text the generator produces from its
\* conditions and actions, parse_rule_text accepts it (returns True) and the
\* parsed conditions have, segment by segment, the same param, operator and
\* value as the conditions the text was generated from.
C1_RoundTrip ==
    [][ (last'.op = "parse_rule_text"
            /\ text = generate_rule_text(conditions, actions))
        => (last'.ret = TRUE /\ SameTriples(conditions', conditions)) ]_vars

RuleMutators == {"add_condition", "add_action", "set_conditions", "set_actions"}

\* the pieces of the canonical layout: an IF line ending in a comma, a THEN
\* line, and one line "  k. ..." per action
CanonicalLayout(t, nActions) ==
    LET lines == Split(t, <<"\n">>)
    IN  /\ Len(lines) = nActions + 2
        /\ StartsWith(lines[1], <<"I","F"," ">>)
        /\ lines[1][Len(lines[1])] = ","
        /\ lines[2] = <<"T","H","E","N">>
        /\ \A k \in 1..nActions :
               StartsWith(lines[k + 2], <<" "," ">> \o IntToStr(k) \o <<"."," ">>)

\* C5: after every add_condition, add_action, set_conditions or set_actions,
\* whatever the text was before, the rule's text is the text generated from
\* its current conditions and actions, in the canonical layout.
C5_TextInSync ==
    last.op \in RuleMutators =>
        /\ text = update_rule_text(conditions, actions)
        /\ CanonicalLayout(text, Len(actions))

C5_Witness ==
    /\ last.op = "add_condition"
    /\ Len(conditions) = 2
    /\ Len(actions) = 1
    /\ text = <<"I","F"," ","t"," ",">"," ","9"," ","A","N","D"," ","t",",","\n","T","H","E","N","\n"," "," ","1","."," ","A","p","p","l","y"," ","A">>

\* the 1-based rank of the i-th action when the actions are ordered by
\* sequence, equal sequences by position
Rank(acts, i) ==
    1 + Cardinality({ j \in DOMAIN acts :
            \/ acts[j].sequence < acts[i].sequence
            \/ acts[j].sequence = acts[i].sequence /\ j < i })

RECURSIVE RankedLines(_, _)
RankedLines(acts, k) ==
    IF k > Len(acts) THEN <<>>
    ELSE LET a == acts[CHOOSE i \in DOMAIN acts : Rank(acts, i) = k]
         IN  <<"\n"," "," ">> \o IntToStr(k) \o <<"."," ">> \o a.type \o <<" ">> \o a.target
                 \o (IF a.value # <<>> THEN <<" ","t","o"," ">> \o a.value ELSE <<>>)
                 \o RankedLines(acts, k + 1)

\* C6: the generated text lists the actions by ascending sequence, equal
\* sequences in their original order, and the number printed before the
\* k-th listed action is k, not its stored sequence.
C6_SequenceRenumbering ==
    last.op = "add_action" =>
        text = <<"I","F"," ",",","\n","T","H","E","N">> \o RankedLines(actions, 1)

C6_Witness ==
    /\ last.op = "add_action"
    /\ Len(actions) = 3
    /\ \A i \in 1..3 : actions[i].sequence = <<5, 1, 3>>[i]
    /\ \A i \in 1..3 : actions[i].target = << <<"A">>, <<"B">>, <<"C">> >>[i]
    /\ text = <<"I","F"," ",",","\n","T","H","E","N","\n"," "," ","1","."," ","A","p","p","l","y"," ","B","\n"," "," ","2","."," ","A","p","p","l","y"," ","C","\n"," "," ","3","."," ","A","p","p","l","y"," ","A">>

\* C10: parse_rule_text on a text that is empty or lacks "IF " or ", THEN"
\* returns False and leaves conditions, actions and text as they were.
C10_ParseFailureKeepsRule ==
    [][ (last'.op = "parse_rule_text"
            /\ (\/ text = <<>>
                \/ ~Contains(text, <<"I","F"," ">>)
                \/ ~Contains(text, <<","," ","T","H","E","N">>)))
        => (last'.ret = FALSE /\ UNCHANGED ruleVars) ]_vars

C10_Witness ==
    /\ last.op = "parse_rule_text"
    /\ last.ret = FALSE
    /\ conditions # <<>>
    /\ actions # <<>>
    /\ Contains(text, <<"I","F"," ">>)
    /\ ~Contains(text, <<","," ","T","H","E","N">>)

\* the tokens of the IF part when the position alone decides whether the
\* connector of a condition is written
RECURSIVE PositionalTokens(_, _)
PositionalTokens(conds, i) ==
    IF i > Len(conds) THEN <<>>
    ELSE << IF conds[i].operator = <<"=">> /\ conds[i].value = <<"t","r","u","e">>
            THEN conds[i].param
            ELSE conds[i].param \o <<" ">> \o conds[i].operator
                     \o <<" ">> \o conds[i].value >>
         \o (IF i < Len(conds) /\ conds[i].connector # <<>>
             THEN << conds[i].connector >> ELSE <<>>)
         \o PositionalTokens(conds, i + 1)

\* C22: in the generated text the non-empty connector of every condition at
\* a non-last position is written as a separate word right after that
\* condition and none after the last condition, whatever the fields of the
\* conditions are, two conditions with identical fields included.
C22_ConnectorByPosition ==
    last.op \in RuleMutators =>
        SplitOnce(text, <<",","\n","T","H","E","N">>)[1]
            = <<"I","F"," ">> \o Join(PositionalTokens(conditions, 1), <<" ">>)

(***************************************************************************)
(* A Rule that is given conditions and actions one by one and validated.   *)
(***************************************************************************)
NextRuleValidate ==
    \/ /\ Len(conditions) + Len(actions) < MaxItems
       /\ \E p \in Params, ov \in OperatorValues, c \in Connectors :
              add_condition(p, ov[1], ov[2], c)
    \/ /\ Len(conditions) + Len(actions) < MaxItems
       /\ \E t \in Targets, s \in SequenceArgs :
              add_action(t, <<"A","p","p","l","y">>, <<>>, s)
    \/ rule_validate

SpecRuleValidate == InitSeq /\ [][NextRuleValidate]_vars

\* C23: after any sequence of add_condition calls on a rule that started
\* with no conditions the last condition's connector is ''; after
\* add_condition(..., connector=c) on a non-empty list the condition that
\* was last before the call carries connector c and the older conditions
\* are as before; Rule.validate() never reports 'Last condition should not
\* have a connector' for such a rule.
C23_LastConnectorEmpty ==
    [][ /\ conditions' # <<>> => conditions'[Len(conditions')].connector = <<>>
        /\ (last'.op = "add_condition" /\ conditions # <<>>) =>
               /\ Len(conditions') = Len(conditions) + 1
               /\ conditions'[Len(conditions)]
                      = [conditions[Len(conditions)]
                            EXCEPT !.connector = last'.b]
               /\ \A i \in 1..(Len(conditions) - 1) :
                      conditions'[i] = conditions[i]
        /\ last'.op = "Rule.validate" =>
               \A i \in DOMAIN last'.ret.conditions :
                   last'.ret.conditions[i].msg
                       # "Last condition should not have a connector" ]_vars

\* a rule with two conditions joined by OR has been validated
C23_Witness ==
    /\ last.op = "Rule.validate"
    /\ Len(conditions) = 2
    /\ conditions[1].connector = <<"O","R">>
    /\ conditions[2].connector = <<>>
    /\ last.ret.conditions = <<>>

\* C24: Rule.validate() reports a 'Duplicate sequence number' issue for
\* every action whose sequence number is also carried by an action at
\* another position of the actions list.
C24_DuplicateSequence ==
    last.op = "Rule.validate" =>
        \A s \in {actions[i].sequence : i \in DOMAIN actions} :
            LET carriers == {i \in DOMAIN actions : actions[i].sequence = s}
                reported == {i \in DOMAIN last.ret.actions :
                                /\ last.ret.actions[i].msg
                                       = "Duplicate sequence number N"
                                /\ last.ret.actions[i].n = s}
            IN  Cardinality(carriers) > 1
                    => Cardinality(reported) = Cardinality(carriers)

(***************************************************************************)
(* DiagnosticNode.                                                         *)
(***************************************************************************)
VALID_TYPES == {"problem", "check", "condition", "action"}

\* a property that is not in the properties dict, and one that is
Absent(v) == [some |-> FALSE, val |-> v]
Some(v) == [some |-> TRUE, val |-> v]

\* a node created with an empty properties dict
DEFAULT_PROPERTIES_none(node_type) ==
    [check_type |-> Absent(<<>>), severity |-> Absent(<<>>),
     impact |-> Absent(<<>>), effectiveness |-> Absent(0)]

\* DiagnosticNode.DEFAULT_PROPERTIES[node_type].copy()
DEFAULT_PROPERTIES(node_type) ==
    [check_type |-> IF node_type = "check"
                    THEN Some(<<"V","i","s","u","a","l"," ","I","n","s","p","e","c","t","i","o","n">>) ELSE Absent(<<>>),
     severity |-> IF node_type = "condition"
                  THEN Some(<<"N","o","r","m","a","l">>) ELSE Absent(<<>>),
     impact |-> IF node_type = "action"
                THEN Some(<<"A","d","j","u","s","t","m","e","n","t">>) ELSE Absent(<<>>),
     effectiveness |-> IF node_type = "action" THEN Some(3) ELSE Absent(0)]

\* DiagnosticNode.__init__ followed by set_position
NewNode(node_id, node_type, position) ==
    [node_id |-> node_id, node_type |-> node_type, content |-> <<>>,
     connections |-> <<>>, properties |-> DEFAULT_PROPERTIES(node_type),
     position |-> position]

\* get_check_type / get_condition_severity / get_action_impact: the property
\* for a node of the type that carries it, None for any other node
get_check_type(node) ==
    IF node.node_type = "check" THEN node.properties.check_type
    ELSE Absent(<<>>)

get_condition_severity(node) ==
    IF node.node_type = "condition" THEN node.properties.severity
    ELSE Absent(<<>>)

get_action_impact(node) ==
    IF node.node_type = "action" THEN node.properties.impact
    ELSE Absent(<<>>)

\* the truth value Python gives an optional string
Truthy(p) == p.some /\ p.val # <<>>

\* add_connection that puts the new target first
add_connection_front(conns, target_node_id) ==
    IF target_node_id \notin Range(conns) THEN <<target_node_id>> \o conns
    ELSE conns

\* add_connection that appends nothing
add_connection_none(conns, target_node_id) == conns

\* DiagnosticNode.add_connection: the connections list afterwards
add_connection(conns, target_node_id) ==
    IF target_node_id \notin Range(conns) THEN Append(conns, target_node_id)
    ELSE conns

\* list.remove(x): without the first occurrence of x
RemoveFirst(list, x) ==
    LET hits == {i \in DOMAIN list : list[i] = x}
        k == CHOOSE i \in hits : \A j \in hits : i <= j
    IN  SubSeq(list, 1, k - 1) \o SubSeq(list, k + 1, Len(list))

\* remove_connection that removes nothing
remove_connection_kept(conns, target_node_id) == conns

\* DiagnosticNode.remove_connection: the connections list afterwards
remove_connection(conns, target_node_id) ==
    IF target_node_id \in Range(conns) THEN RemoveFirst(conns, target_node_id)
    ELSE conns

\* the node type as text, and str.capitalize() of it
TypeText(node_type) ==
    CASE node_type = "problem" -> <<"p","r","o","b","l","e","m">>
      [] node_type = "check" -> <<"c","h","e","c","k">>
      [] node_type = "condition" -> <<"c","o","n","d","i","t","i","o","n">>
      [] node_type = "action" -> <<"a","c","t","i","o","n">>

LowerLetters == <<"a","b","c","d","e","f","g","h","i","j","k","l","m","n","o","p","q","r","s","t","u","v","w","x","y","z">>
UpperLetters == <<"A","B","C","D","E","F","G","H","I","J","K","L","M","N","O","P","Q","R","S","T","U","V","W","X","Y","Z">>

Upper(c) ==
    IF c \in Range(LowerLetters)
    THEN UpperLetters[CHOOSE i \in DOMAIN LowerLetters : LowerLetters[i] = c]
    ELSE c

Lower(c) ==
    IF c \in Range(UpperLetters)
    THEN LowerLetters[CHOOSE i \in DOMAIN UpperLetters : UpperLetters[i] = c]
    ELSE c

Capitalize(s) ==
    [i \in DOMAIN s |-> IF i = 1 THEN Upper(s[i]) ELSE Lower(s[i])]

\* node_id[:8]: the ids of the model are shorter than eight characters
IdPrefix(node_id) == node_id

\* DiagnosticNode.validate
node_validate(node) ==
    (IF node.content = <<>> THEN <<"Node content is empty">> ELSE <<>>)
    \o (IF node.node_type = "check" /\ ~Truthy(get_check_type(node))
        THEN <<"Check type is not specified">>
        ELSE IF node.node_type = "condition"
                 /\ ~Truthy(get_condition_severity(node))
        THEN <<"Condition severity is not specified">>
        ELSE IF node.node_type = "action" /\ ~Truthy(get_action_impact(node))
        THEN <<"Action impact is not specified">>
        ELSE <<>>)

(***************************************************************************)
(* DiagnosticPathway: queries.                                             *)
(***************************************************************************)
\* self.nodes.keys(), in insertion order and as a set
NodeIdList(ns) == [i \in DOMAIN ns |-> ns[i].node_id]
NodeIds(ns) == {ns[i].node_id : i \in DOMAIN ns}

\* self.nodes[node_id]
NodeOf(ns, node_id) == ns[CHOOSE i \in DOMAIN ns : ns[i].node_id = node_id]

\* get_nodes_by_type
get_nodes_by_type(ns, node_type) ==
    SelectSeq(ns, LAMBDA n : n.node_type = node_type)

\* the column of a node type: column_map.get(node_type, 0)
Column(node_type) ==
    CASE node_type = "problem" -> 0
      [] node_type = "check" -> 1
      [] node_type = "condition" -> 2
      [] node_type = "action" -> 3
      [] OTHER -> 0

Max(a, b) == IF a >= b THEN a ELSE b

RECURSIVE LowestFreeY(_, _, _)
LowestFreeY(ns, node_type, max_y) ==
    IF ns = <<>> THEN max_y
    ELSE LowestFreeY(Tail(ns), node_type,
             IF Head(ns).node_type = node_type
             THEN Max(max_y, Head(ns).position.y + NodeHeight + node_margin)
             ELSE max_y)

\* calculate_node_position
calculate_node_position(ns, node_type) ==
    [x |-> initial_x + Column(node_type) * (column_width + column_margin),
     y |-> LowestFreeY(ns, node_type, initial_y)]

(***************************************************************************)
(* DiagnosticPathway._detect_cycles.                                       *)
(***************************************************************************)
\* an adjacency list that leaves out the edges from a node to itself
Neighbors_noSelf(ns, conns, node) ==
    IF node \in NodeIds(ns)
    THEN LET out == SelectSeq(conns, LAMBDA e : e[1] = node /\ e[2] # node)
         IN  [i \in DOMAIN out |-> out[i][2]]
    ELSE <<>>

\* graph.get(node, []): the adjacency list built from the edge list
Neighbors(ns, conns, node) ==
    IF node \in NodeIds(ns)
    THEN LET out == SelectSeq(conns, LAMBDA e : e[1] = node)
         IN  [i \in DOMAIN out |-> out[i][2]]
    ELSE <<>>

\* path.index(node)
IndexOf(path, node) ==
    CHOOSE i \in DOMAIN path :
        path[i] = node /\ \A j \in DOMAIN path : path[j] = node => i <= j

RECURSIVE dfs_cycle(_, _, _, _, _)
RECURSIVE DfsNeighbors(_, _, _, _, _, _)

\* dfs_cycle(node, path) with the closure's visited, rec_stack and cycles
dfs_cycle(ns, conns, node, path, st) ==
    IF node \in st.rec_stack
    THEN [st EXCEPT !.cycles =
              Append(@, SubSeq(path, IndexOf(path, node), Len(path)))]
    ELSE IF node \in st.visited THEN st
    ELSE LET entered == [visited |-> st.visited \cup {node},
                         rec_stack |-> st.rec_stack \cup {node},
                         cycles |-> st.cycles]
             done == DfsNeighbors(ns, conns, Neighbors(ns, conns, node), 1,
                                  Append(path, node), entered)
         IN  [done EXCEPT !.rec_stack = @ \ {node}]

\* for neighbor in graph.get(node, []): dfs_cycle(neighbor, path.copy())
DfsNeighbors(ns, conns, nbrs, i, path, st) ==
    IF i > Len(nbrs) THEN st
    ELSE DfsNeighbors(ns, conns, nbrs, i + 1, path,
                      dfs_cycle(ns, conns, nbrs[i], path, st))

\* for node in graph: if node not in visited: dfs_cycle(node, [])
RECURSIVE DfsRoots(_, _, _, _)
DfsRoots(ns, conns, i, st) ==
    IF i > Len(ns) THEN st
    ELSE DfsRoots(ns, conns, i + 1,
             IF ns[i].node_id \notin st.visited
             THEN dfs_cycle(ns, conns, ns[i].node_id, <<>>, st)
             ELSE st)

detect_cycles(ns, conns) ==
    DfsRoots(ns, conns, 1,
             [visited |-> {}, rec_stack |-> {}, cycles |-> <<>>]).cycles

(***************************************************************************)
(* DiagnosticPathway.validate.                                             *)
(***************************************************************************)
\* one issue: the message with the node type, node id prefix and count it
\* is formatted from
Issue(msg, typeText, node, n) ==
    [msg |-> msg, type |-> typeText, node |-> node, n |-> n]

RECURSIVE NodeIssues(_)
NodeIssues(ns) ==
    IF ns = <<>> THEN <<>>
    ELSE LET found == node_validate(Head(ns))
         IN  [i \in DOMAIN found |->
                 Issue(found[i], <<>>, IdPrefix(Head(ns).node_id), 0)]
             \o NodeIssues(Tail(ns))

\* connected_nodes holding the sources of the edges only
ConnectedNodes_sources(conns) == {conns[i][1] : i \in DOMAIN conns}

\* connected_nodes: every source and every target of an edge
ConnectedNodes(conns) ==
    {conns[i][1] : i \in DOMAIN conns} \cup {conns[i][2] : i \in DOMAIN conns}

ConnectionIssues(ns, conns) ==
    LET disconnected ==
            SelectSeq(ns, LAMBDA n : n.node_id \notin ConnectedNodes(conns))
    IN  [i \in DOMAIN disconnected |->
            Issue("is disconnected",
                  Capitalize(TypeText(disconnected[i].node_type)),
                  IdPrefix(disconnected[i].node_id), 0)]

\* terminal_nodes taken as the nodes that are the target of no edge
TerminalNodes_noIncoming(ns, conns) ==
    {id \in NodeIds(ns) : \A i \in DOMAIN conns : conns[i][2] # id}

\* terminal_nodes: the nodes that are the source of no edge
TerminalNodes(ns, conns) ==
    {id \in NodeIds(ns) : \A i \in DOMAIN conns : conns[i][1] # id}

\* the orders in which a Python set may be iterated
Orderings(S) ==
    {f \in [1..Cardinality(S) -> S] :
        \A i, j \in 1..Cardinality(S) : f[i] = f[j] => i = j}

RECURSIVE TerminalIssues(_, _)
TerminalIssues(ns, order) ==
    IF order = <<>> THEN <<>>
    ELSE (IF Head(order) \in NodeIds(ns)
             /\ NodeOf(ns, Head(order)).node_type # "action"
          THEN << Issue("ends pathway without an action",
                        Capitalize(TypeText(NodeOf(ns, Head(order)).node_type)),
                        IdPrefix(Head(order)), 0) >>
          ELSE <<>>)
         \o TerminalIssues(ns, Tail(order))

StructureIssues(ns, conns, terminalOrder) ==
    (IF get_nodes_by_type(ns, "problem") = <<>>
     THEN << Issue("No problem statement defined", <<>>, 0, 0) >> ELSE <<>>)
    \o (IF get_nodes_by_type(ns, "action") = <<>>
        THEN << Issue("No action steps defined", <<>>, 0, 0) >> ELSE <<>>)
    \o TerminalIssues(ns, terminalOrder)
    \o (IF detect_cycles(ns, conns) # <<>>
        THEN << Issue("Pathway contains N cycle(s)", <<>>, 0,
                      Len(detect_cycles(ns, conns))) >>
        ELSE <<>>)

\* validate(): the issues by category; terminalOrder is the order in which
\* the set terminal_nodes is iterated
validate_issues(ns, conns, terminalOrder) ==
    [nodes |-> NodeIssues(ns),
     connections |-> ConnectionIssues(ns, conns),
     structure |-> StructureIssues(ns, conns, terminalOrder)]

(***************************************************************************)
(* DiagnosticPathway.convert_to_rule_text.                                 *)
(***************************************************************************)
\* content = node.get_content().strip(), or the placeholder when empty
RuleContent(node) ==
    IF Strip(node.content) # <<>> THEN Strip(node.content)
    ELSE <<"[","E","m","p","t","y"," ">> \o Capitalize(TypeText(node.node_type)) \o <<"]">>

\* the phrase a node contributes, by node type
NodePhrase(node) ==
    LET content == RuleContent(node)
    IN  CASE node.node_type = "problem" ->
                 <<"p","r","o","b","l","e","m"," ","i","s"," ","'">> \o content \o <<"'">>
          [] node.node_type = "check" ->
                 IF Truthy(get_check_type(node))
                 THEN get_check_type(node).val \o <<" ","s","h","o","w","s"," ","'">> \o content \o <<"'">>
                 ELSE <<"c","h","e","c","k"," ","s","h","o","w","s"," ","'">> \o content \o <<"'">>
          [] node.node_type = "condition" ->
                 IF Truthy(get_condition_severity(node))
                 THEN get_condition_severity(node).val
                      \o <<" ","c","o","n","d","i","t","i","o","n",":"," ">> \o content
                 ELSE content
          [] node.node_type = "action" ->
                 IF Truthy(get_action_impact(node))
                 THEN get_action_impact(node).val \o <<":"," ">> \o content
                 ELSE content

RECURSIVE process_node_for_rule(_, _, _, _)
RECURSIVE ProcessChildren(_, _, _, _, _)

\* _process_node_for_rule that does not follow the outgoing edges
process_node_for_rule_flat(ns, conns, node_id, st) ==
    IF node_id \in st.visited \/ node_id \notin NodeIds(ns) THEN st
    ELSE IF NodeOf(ns, node_id).node_type = "action"
         THEN [st EXCEPT !.visited = @ \cup {node_id},
                         !.actions = Append(@, NodePhrase(NodeOf(ns, node_id)))]
         ELSE [st EXCEPT !.visited = @ \cup {node_id},
                         !.conditions = Append(@, NodePhrase(NodeOf(ns, node_id)))]

\* _process_node_for_rule with the lists and the visited set it updates
process_node_for_rule(ns, conns, node_id, st) ==
    IF node_id \in st.visited THEN st
    ELSE LET seen == [st EXCEPT !.visited = @ \cup {node_id}]
         IN  IF node_id \notin NodeIds(ns) THEN seen
             ELSE LET node == NodeOf(ns, node_id)
                      added ==
                          IF node.node_type = "action"
                          THEN [seen EXCEPT !.actions =
                                    Append(@, NodePhrase(node))]
                          ELSE [seen EXCEPT !.conditions =
                                    Append(@, NodePhrase(node))]
                  IN  ProcessChildren(ns, conns, node_id, 1, added)

\* for source, target in self.connections: if source == node_id: recurse
ProcessChildren(ns, conns, node_id, i, st) ==
    IF i > Len(conns) THEN st
    ELSE ProcessChildren(ns, conns, node_id, i + 1,
             IF conns[i][1] = node_id
             THEN process_node_for_rule(ns, conns, conns[i][2], st)
             ELSE st)

\* starting nodes without the fall-back to the problem nodes
StartingNodes_first(ns, conns) ==
    LET incoming == {conns[i][2] : i \in DOMAIN conns}
        roots == SelectSeq(NodeIdList(ns), LAMBDA id : id \notin incoming)
    IN  IF roots # <<>> THEN roots
        ELSE IF ns = <<>> THEN <<>>
        ELSE << ns[1].node_id >>

\* starting_nodes: no incoming edge; else the problem nodes; else the first
StartingNodes(ns, conns) ==
    LET incoming == {conns[i][2] : i \in DOMAIN conns}
        roots == SelectSeq(NodeIdList(ns), LAMBDA id : id \notin incoming)
        problems == NodeIdList(get_nodes_by_type(ns, "problem"))
    IN  IF roots # <<>> THEN roots
        ELSE IF problems # <<>> THEN problems
        ELSE IF ns = <<>> THEN <<>>
        ELSE << ns[1].node_id >>

\* for start_node_id in starting_nodes: a fresh visited set each time
RECURSIVE ProcessStarts(_, _, _, _, _)
ProcessStarts(ns, conns, starts, i, st) ==
    IF i > Len(starts) THEN st
    ELSE ProcessStarts(ns, conns, starts, i + 1,
             process_node_for_rule(ns, conns, starts[i],
                                   [st EXCEPT !.visited = {}]))

RECURSIVE NumberedLines(_, _)
NumberedLines(acts, i) ==
    IF i > Len(acts) THEN <<>>
    ELSE <<"\n"," "," ">> \o IntToStr(i) \o <<"."," ">> \o acts[i] \o NumberedLines(acts, i + 1)

convert_to_rule_text(ns, conns) ==
    LET done == ProcessStarts(ns, conns, StartingNodes(ns, conns), 1,
                    [conditions |-> <<>>, actions |-> <<>>, visited |-> {}])
    IN  <<"I","F"," ">> \o Join(done.conditions, <<" ","A","N","D"," ">>) \o <<",","\n">>
        \o <<"T","H","E","N">> \o NumberedLines(done.actions, 1)

(***************************************************************************)
(* DiagnosticPathway.convert_to_structured_data (without pathway_data).    *)
(***************************************************************************)
\* one condition per piece of the IF part, the last without connector
StructuredConditions(if_part) ==
    LET texts == Split(if_part, <<" ","A","N","D"," ">>)
    IN  [i \in DOMAIN texts |->
            [param |-> texts[i], operator |-> <<"=">>, value |-> <<"t","r","u","e">>,
             connector |-> IF i = Len(texts) THEN <<>> ELSE <<"A","N","D">>]]

\* one line of the THEN part: the sequence prefix, then "type: target"
StructuredActionLine(rawLine, i) ==
    LET action_line == Strip(rawLine)
        seq_end == Find(action_line, <<"."," ">>)
        number == ParseInt(SubSeq(action_line, 1, seq_end - 1))
        prefixed == IsDigit(action_line[1]) /\ seq_end # 0 /\ number.ok
        action_text == IF prefixed THEN From(action_line, seq_end + 2)
                       ELSE action_line
        parts == SplitOnce(action_text, <<":"," ">>)
    IN  IF action_line = <<>> THEN <<>>
        ELSE << [type |-> IF Len(parts) = 2 THEN parts[1] ELSE <<"A","p","p","l","y">>,
                 target |-> IF Len(parts) = 2 THEN parts[2] ELSE action_text,
                 value |-> <<>>,
                 sequence |-> IF prefixed THEN number.val ELSE i] >>

RECURSIVE StructuredActions(_, _)
StructuredActions(lines, i) ==
    IF i > Len(lines) THEN <<>>
    ELSE StructuredActionLine(lines[i], i) \o StructuredActions(lines, i + 1)

convert_to_structured_data(ns, conns) ==
    LET rule_text == convert_to_rule_text(ns, conns)
        parts == Split(rule_text, <<",","\n","T","H","E","N">>)
    IN  [text |-> rule_text,
         conditions |->
             IF Len(parts) = 2
             THEN StructuredConditions(
                      Strip(Replace(parts[1], <<"I","F"," ">>, <<>>)))
             ELSE <<>>,
         actions |->
             IF Len(parts) = 2
             THEN StructuredActions(Split(Strip(parts[2]), <<"\n">>), 1)
             ELSE <<>>]

(***************************************************************************)
(* DiagnosticPathway: operations.                                          *)
(***************************************************************************)
NoRule == text = <<>> /\ conditions = <<>> /\ actions = <<>>

\* a pathway after __init__, before any call
InitPathway ==
    /\ NoRule
    /\ NoPathway
    /\ NoServices
    /\ last = Call("init", 0, 0, FALSE)

\* a call that returns a value, and a call that raises: the exception type
\* and the value its message is formatted from
Return(v) == [raised |-> FALSE, error |-> "", named |-> "", value |-> v]
Raise(error, named) == [raised |-> TRUE, error |-> error, named |-> named, value |-> 0]

\* DiagnosticNode.__init__: the ValueError for a type outside VALID_TYPES
InvalidNodeType(node_type) == Raise("ValueError: Invalid node type", node_type)

\* add_node that gives a node of an unknown type the default type "check"
add_node_defaulting(node_type) ==
    LET ty == IF node_type \in VALID_TYPES THEN node_type ELSE "check"
    IN  /\ nodes' = Append(nodes, NewNode(issued + 1, ty,
                                          calculate_node_position(nodes, ty)))
        /\ issued' = issued + 1
        /\ last' = Call("add_node", node_type, 0, Return(issued + 1))
        /\ before' = NoBefore
        /\ UNCHANGED <<connections, ruleVars, serviceVars, copy>>

\* add_node(node_type) with no position given; node ids are fresh
add_node(node_type) ==
    /\ IF node_type \notin VALID_TYPES
       THEN /\ last' = Call("add_node", node_type, 0, InvalidNodeType(node_type))
            /\ UNCHANGED <<nodes, issued>>
       ELSE /\ nodes' = Append(nodes, NewNode(issued + 1, node_type,
                                   calculate_node_position(nodes, node_type)))
            /\ issued' = issued + 1
            /\ last' = Call("add_node", node_type, 0, Return(issued + 1))
    /\ before' = NoBefore
    /\ UNCHANGED <<connections, ruleVars, serviceVars, copy>>

\* leaving the connections lists of the remaining nodes as they are
StripConnections_none(ns, node_id) == ns

\* the connections list of every node without node_id
StripConnections(ns, node_id) ==
    [i \in DOMAIN ns |->
        [ns[i] EXCEPT !.connections = remove_connection(@, node_id)]]

remove_node(node_id) ==
    /\ IF node_id \notin NodeIds(nodes)
       THEN /\ UNCHANGED <<nodes, connections>>
            /\ last' = Call("remove_node", node_id, 0, FALSE)
       ELSE /\ nodes' = StripConnections(
                            SelectSeq(nodes, LAMBDA n : n.node_id # node_id),
                            node_id)
            /\ connections' = SelectSeq(connections,
                                  LAMBDA e : e[1] # node_id /\ e[2] # node_id)
            /\ last' = Call("remove_node", node_id, 0, TRUE)
    /\ before' = NoBefore
    /\ UNCHANGED <<issued, ruleVars, serviceVars, copy>>

\* connect_nodes without the test for an existing edge
connect_nodes_unchecked(source_id, target_id) ==
    /\ IF \/ source_id \notin NodeIds(nodes)
          \/ target_id \notin NodeIds(nodes)
       THEN /\ UNCHANGED <<nodes, connections>>
            /\ last' = Call("connect_nodes", source_id, target_id, FALSE)
       ELSE /\ connections' = Append(connections, <<source_id, target_id>>)
            /\ nodes' = [i \in DOMAIN nodes |->
                            IF nodes[i].node_id = source_id
                            THEN [nodes[i] EXCEPT !.connections =
                                      add_connection(@, target_id)]
                            ELSE nodes[i]]
            /\ last' = Call("connect_nodes", source_id, target_id, TRUE)
    /\ before' = NoBefore
    /\ UNCHANGED <<issued, ruleVars, serviceVars, copy>>

connect_nodes(source_id, target_id) ==
    /\ IF \/ source_id \notin NodeIds(nodes)
          \/ target_id \notin NodeIds(nodes)
          \/ <<source_id, target_id>> \in Range(connections)
       THEN /\ UNCHANGED <<nodes, connections>>
            /\ before' = NoBefore
            /\ last' = Call("connect_nodes", source_id, target_id, FALSE)
       ELSE /\ connections' = Append(connections, <<source_id, target_id>>)
            /\ nodes' = [i \in DOMAIN nodes |->
                            IF nodes[i].node_id = source_id
                            THEN [nodes[i] EXCEPT !.connections =
                                      add_connection(@, target_id)]
                            ELSE nodes[i]]
            /\ before' = [kept |-> TRUE, undone |-> FALSE,
                          nodes |-> nodes, connections |-> connections]
            /\ last' = Call("connect_nodes", source_id, target_id, TRUE)
    /\ UNCHANGED <<issued, ruleVars, serviceVars, copy>>

\* before keeps the pathway a connect_nodes(s, t) started from while the
\* very next call is disconnect_nodes(s, t)
disconnect_nodes(source_id, target_id) ==
    /\ IF <<source_id, target_id>> \notin Range(connections)
       THEN /\ UNCHANGED <<nodes, connections>>
            /\ last' = Call("disconnect_nodes", source_id, target_id, FALSE)
       ELSE /\ connections' = RemoveFirst(connections, <<source_id, target_id>>)
            /\ nodes' = [i \in DOMAIN nodes |->
                            IF nodes[i].node_id = source_id
                            THEN [nodes[i] EXCEPT !.connections =
                                      remove_connection(@, target_id)]
                            ELSE nodes[i]]
            /\ last' = Call("disconnect_nodes", source_id, target_id, TRUE)
    /\ before' = IF /\ before.kept /\ ~before.undone
                    /\ last = Call("connect_nodes", source_id, target_id, TRUE)
                 THEN [before EXCEPT !.undone = TRUE]
                 ELSE NoBefore
    /\ UNCHANGED <<issued, ruleVars, serviceVars, copy>>

clear ==
    /\ nodes' = <<>>
    /\ connections' = <<>>
    /\ last' = Call("clear", 0, 0, FALSE)
    /\ before' = NoBefore
    /\ UNCHANGED <<issued, ruleVars, serviceVars, copy>>

\* DiagnosticNode.set_content on a node of the pathway
set_content(node_id, content) ==
    /\ node_id \in NodeIds(nodes)
    /\ nodes' = [i \in DOMAIN nodes |->
                    IF nodes[i].node_id = node_id
                    THEN [nodes[i] EXCEPT !.content = content]
                    ELSE nodes[i]]
    /\ last' = Call("set_content", node_id, content, FALSE)
    /\ before' = NoBefore
    /\ UNCHANGED <<connections, issued, ruleVars, serviceVars, copy>>

\* validate(): the set of terminal nodes is iterated in some order
validate ==
    /\ \E order \in Orderings(TerminalNodes(nodes, connections)) :
           last' = Call("validate", 0, 0,
                        validate_issues(nodes, connections, order))
    /\ before' = NoBefore
    /\ UNCHANGED <<nodes, connections, issued, ruleVars, serviceVars, copy>>

convert ==
    /\ last' = Call("convert_to_rule_text", 0, 0,
                    convert_to_rule_text(nodes, connections))
    /\ before' = NoBefore
    /\ UNCHANGED <<nodes, connections, issued, ruleVars, serviceVars, copy>>

\* the position auto_layout gives the i-th node when it counts the nodes of
\* all types together
LayoutPosition_byIndex(ns, i) ==
    [x |-> initial_x + Column(ns[i].node_type) * (column_width + column_margin),
     y |-> initial_y + (i - 1) * (LayoutNodeHeight + node_margin)]

\* the position auto_layout gives the i-th node: the column of its type,
\* below the earlier nodes of that type
LayoutPosition(ns, i) ==
    LET earlier == {k \in 1..(i - 1) : ns[k].node_type = ns[i].node_type}
    IN  [x |-> initial_x
                 + Column(ns[i].node_type) * (column_width + column_margin),
         y |-> initial_y
                 + Cardinality(earlier) * (LayoutNodeHeight + node_margin)]

\* DiagnosticPathway.auto_layout
auto_layout ==
    /\ nodes' = [i \in DOMAIN nodes |->
                    [nodes[i] EXCEPT !.position = LayoutPosition(nodes, i)]]
    /\ last' = Call("auto_layout", 0, 0, FALSE)
    /\ before' = NoBefore
    /\ UNCHANGED <<connections, issued, ruleVars, serviceVars, copy>>

convert_structured ==
    /\ last' = Call("convert_to_structured_data", 0, 0,
                    convert_to_structured_data(nodes, connections))
    /\ before' = NoBefore
    /\ UNCHANGED <<nodes, connections, issued, ruleVars, serviceVars, copy>>

(***************************************************************************)
(* Pathway editing: nodes and edges are added and removed.                 *)
(***************************************************************************)
\* the node types and the node ids the calls are made with
EditTypes == {"problem", "action"}
IdArgs == 1..MaxIds

Next ==
    \/ /\ issued < MaxIds
       /\ \E ty \in EditTypes : add_node(ty)
    \/ \E id \in IdArgs : remove_node(id)
    \/ /\ Len(connections) < MaxEdges
       /\ \E s \in IdArgs, t \in IdArgs : connect_nodes(s, t)
    \/ \E s \in IdArgs, t \in IdArgs : disconnect_nodes(s, t)
    \/ clear

Spec == InitPathway /\ [][Next]_vars

(***************************************************************************)
(* Pathway validation: nodes and edges are added, then validated.          *)
(***************************************************************************)
NextValidate ==
    \/ /\ issued < MaxIds
       /\ \E ty \in VALID_TYPES : add_node(ty)
    \/ /\ Len(connections) < MaxEdges
       /\ \E s \in IdArgs, t \in IdArgs : connect_nodes(s, t)
    \/ validate

SpecValidate == InitPathway /\ [][NextValidate]_vars

(***************************************************************************)
(* The end-to-end scenario: a chain of four nodes is built and converted.  *)
(***************************************************************************)
ScenarioTypes == <<"problem", "check", "condition", "action">>
ScenarioContents ==
    << <<"T","e","m","p"," ","h","i","g","h">>, <<"S","e","n","s","o","r"," ","c","h","e","c","k">>, <<"T","e","m","p",">","9","0">>, <<"A","p","p","l","y"," ","c","o","o","l","i","n","g">> >>

NextScenario ==
    \/ /\ issued < Len(ScenarioTypes)
       /\ add_node(ScenarioTypes[issued + 1])
    \/ \E id \in DOMAIN ScenarioContents :
           set_content(id, ScenarioContents[id])
    \/ \E s \in 1..(Len(ScenarioTypes) - 1) : connect_nodes(s, s + 1)
    \/ convert

SpecScenario == InitPathway /\ [][NextScenario]_vars

(***************************************************************************)
(* Claims about the pathway graph.                                         *)
(***************************************************************************)
\* C2: remove_node(id) on a pathway that contains id returns True and
\* afterwards id is not a node, no edge has id as source or target and no
\* remaining node's connections list contains id; on a pathway that does
\* not contain id it returns False and leaves nodes, edges and connections
\* lists unchanged.
C2_RemoveNode ==
    [][ last'.op = "remove_node" =>
          IF last'.a \in NodeIds(nodes)
          THEN /\ last'.ret = TRUE
               /\ last'.a \notin NodeIds(nodes')
               /\ \A i \in DOMAIN connections' :
                      connections'[i][1] # last'.a /\ connections'[i][2] # last'.a
               /\ \A i \in DOMAIN nodes' :
                      last'.a \notin Range(nodes'[i].connections)
          ELSE /\ last'.ret = FALSE
               /\ UNCHANGED <<nodes, connections>> ]_vars

\* a node that was the target of another node's edge has been removed
C2_Witness ==
    /\ last.op = "remove_node"
    /\ last.a = 2 /\ last.ret = TRUE
    /\ Len(nodes) = 1
    /\ nodes[1].connections = <<1>>
    /\ connections = << <<1, 1>> >>

\* C3: connect_nodes(s, t) returns False and leaves the edge list and every
\* connections list unchanged when s or t is not a node or the edge (s, t)
\* already exists; otherwise (a self-loop included) it returns True, appends
\* (s, t) at the end of the edge list and appends t to s's connections list.
C3_ConnectNodes ==
    [][ last'.op = "connect_nodes" =>
          LET s == last'.a
              t == last'.b
          IN  IF \/ s \notin NodeIds(nodes)
                 \/ t \notin NodeIds(nodes)
                 \/ \E i \in DOMAIN connections : connections[i] = <<s, t>>
              THEN /\ last'.ret = FALSE
                   /\ UNCHANGED <<nodes, connections>>
              ELSE /\ last'.ret = TRUE
                   /\ connections' = connections \o << <<s, t>> >>
                   /\ NodeIdList(nodes') = NodeIdList(nodes)
                   /\ \A i \in DOMAIN nodes :
                          nodes'[i].connections =
                              IF nodes[i].node_id = s
                              THEN nodes[i].connections \o <<t>>
                              ELSE nodes[i].connections ]_vars

\* a self-loop has been added after another edge of the same source
C3_Witness ==
    /\ last.op = "connect_nodes"
    /\ last.ret = TRUE /\ last.a = 1 /\ last.b = 1
    /\ connections = << <<1, 2>>, <<1, 1>> >>
    /\ nodes[1].connections = <<2, 1>>

\* C4: disconnect_nodes(s, t) returns False and changes nothing when the
\* edge (s, t) is absent; a successful connect_nodes(s, t) immediately
\* followed by disconnect_nodes(s, t) returns True and leaves the edge list
\* and every node's connections list as they were before the connect.
C4_DisconnectNodes ==
    [][ last'.op = "disconnect_nodes" =>
          /\ (\A i \in DOMAIN connections :
                  connections[i] # <<last'.a, last'.b>>)
             => (last'.ret = FALSE /\ UNCHANGED <<nodes, connections>>)
          /\ (last.op = "connect_nodes" /\ last.ret = TRUE
              /\ last.a = last'.a /\ last.b = last'.b)
             => /\ last'.ret = TRUE
                /\ before'.undone
                /\ connections' = before'.connections
                /\ nodes' = before'.nodes ]_vars

\* an edge added next to an older edge of the same source has been undone
C4_Witness ==
    /\ last.op = "disconnect_nodes"
    /\ last.ret = TRUE
    /\ before.undone
    /\ connections = << <<last.a, 3 - last.b>> >>

\* the targets of the edges that leave source_id, in edge list order
RECURSIVE EdgeTargets(_, _, _)
EdgeTargets(conns, source_id, i) ==
    IF i > Len(conns) THEN <<>>
    ELSE (IF conns[i][1] = source_id THEN <<conns[i][2]>> ELSE <<>>)
         \o EdgeTargets(conns, source_id, i + 1)

\* C15: in every state reached from the empty pathway through add_node,
\* remove_node, connect_nodes, disconnect_nodes and clear, each node's
\* connections list equals, in order, the targets of the edges of the edge
\* list whose source is that node.
C15_ConnectionsMirrorEdges ==
    \A i \in DOMAIN nodes :
        nodes[i].connections = EdgeTargets(connections, nodes[i].node_id, 1)

\* two edges leave node 2, the later one to the node with the smaller id
C15_Witness ==
    /\ last.op = "connect_nodes" /\ last.ret = TRUE
    /\ connections = << <<2, 2>>, <<2, 1>> >>
    /\ \E i \in DOMAIN nodes :
           nodes[i].node_id = 2 /\ nodes[i].connections = <<2, 1>>
    /\ \E i \in DOMAIN nodes :
           nodes[i].node_id = 1 /\ nodes[i].connections = <<>>

\* C16: in every state reached through the same operations both endpoints
\* of every edge are nodes of the pathway and no (source, target) pair
\* occurs twice in the edge list.
C16_EdgesWellFormed ==
    /\ \A i \in DOMAIN connections :
           connections[i][1] \in NodeIds(nodes)
           /\ connections[i][2] \in NodeIds(nodes)
    /\ \A i, j \in DOMAIN connections :
           connections[i] = connections[j] => i = j

\* a connect_nodes of an existing edge has been refused on a pathway one of
\* whose nodes has been removed
C16_Witness ==
    /\ last.op = "connect_nodes" /\ last.ret = FALSE
    /\ <<last.a, last.b>> \in Range(connections)
    /\ Len(connections) = 1
    /\ Len(nodes) < issued

\* the cycle issue of a validation result, if any
CycleIssues(issues) ==
    SelectSeq(issues.structure,
              LAMBDA m : m.msg = "Pathway contains N cycle(s)" /\ m.n >= 1)

\* the nodes reached from the set S along the edges E
RECURSIVE Closure(_, _)
Closure(E, S) ==
    LET more == S \cup {e[2] : e \in {x \in E : x[1] \in S}}
    IN  IF more = S THEN S ELSE Closure(E, more)

\* some edge leads back to its own source
HasDirectedCycle(conns) ==
    \E e \in Range(conns) : e[1] \in Closure(Range(conns), {e[2]})

\* C7: validate()['structure'] contains a 'Pathway contains N cycle(s)'
\* message with N >= 1 if and only if the edges contain a directed cycle,
\* a self-loop included; the edges A->B, B->A get such a message.
C7_CycleMessage ==
    last.op = "validate" =>
        /\ CycleIssues(last.ret) # <<>> <=> HasDirectedCycle(connections)
        /\ Len(CycleIssues(last.ret)) <= 1

\* the pathway with the edges 1->2 and 2->1 has been validated
C7_Witness ==
    /\ last.op = "validate"
    /\ connections = << <<1, 2>>, <<2, 1>> >>
    /\ CycleIssues(last.ret) # <<>>

\* a node that is neither source nor target of an edge
Isolated(node_id, conns) ==
    \A i \in DOMAIN conns : conns[i][1] # node_id /\ conns[i][2] # node_id

\* C9: validate()['connections'] has exactly one entry for every node that
\* is neither source nor target of any edge and no entry for any other
\* node; for a pathway of one isolated problem node it has exactly one entry
\* and validate()['structure'] contains 'No action steps defined'.
C9_DisconnectedNodes ==
    last.op = "validate" =>
        LET entries == last.ret.connections
            isolated == {id \in NodeIds(nodes) : Isolated(id, connections)}
        IN  /\ \A id \in NodeIds(nodes) :
                   Cardinality({i \in DOMAIN entries : entries[i].node = id})
                       = IF id \in isolated THEN 1 ELSE 0
            /\ Len(entries) = Cardinality(isolated)
            /\ \A i \in DOMAIN entries : entries[i].msg = "is disconnected"
            /\ (Len(nodes) = 1 /\ nodes[1].node_type = "problem"
                /\ connections = <<>>)
               => /\ Len(entries) = 1
                  /\ \E i \in DOMAIN last.ret.structure :
                         last.ret.structure[i].msg = "No action steps defined"

\* the pathway of one isolated problem node has been validated
C9_Witness ==
    /\ last.op = "validate"
    /\ Len(nodes) = 1
    /\ nodes[1].node_type = "problem"
    /\ connections = <<>>
    /\ Len(last.ret.connections) = 1

\* the chain problem -> check -> condition -> action with its four contents
ScenarioBuilt ==
    /\ Len(nodes) = Len(ScenarioTypes)
    /\ \A k \in DOMAIN nodes :
           /\ nodes[k].node_type = ScenarioTypes[k]
           /\ nodes[k].content = ScenarioContents[k]
    /\ Range(connections) = {<<k, k + 1>> : k \in 1..(Len(ScenarioTypes) - 1)}

\* C8: for the chain problem('Temp high') -> check('Sensor check') ->
\* condition('Temp>90') -> action('Apply cooling') built through add_node,
\* set_content and connect_nodes, convert_to_rule_text() returns the text
\* with the default check type, severity and impact that add_node gives the
\* nodes: "IF problem is 'Temp high' AND Visual Inspection shows 'Sensor
\* check' AND Normal condition: Temp>90,\nTHEN\n  1. Adjustment: Apply
\* cooling".
C8_ScenarioText ==
    (last.op = "convert_to_rule_text" /\ ScenarioBuilt) =>
        last.ret = <<"I","F"," ","p","r","o","b","l","e","m"," ","i","s"," ","'","T","e","m","p"," ","h","i","g","h","'"," ","A","N","D"," ","V","i","s","u","a","l"," ","I","n","s","p","e","c","t","i","o","n"," ","s","h","o","w","s"," ","'","S","e","n","s","o","r"," ","c","h","e","c","k","'"," ","A","N","D"," ","N","o","r","m","a","l"," ","c","o","n","d","i","t","i","o","n",":"," ","T","e","m","p",">","9","0",",","\n","T","H","E","N","\n"," "," ","1","."," ","A","d","j","u","s","t","m","e","n","t",":"," ","A","p","p","l","y"," ","c","o","o","l","i","n","g">>

\* the complete chain has been converted
C8_Witness ==
    /\ ScenarioBuilt
    /\ last.op = "convert_to_rule_text"
    /\ Len(last.ret) > 0

\* C8 as stated: the text without check type, severity and impact
C8_ScenarioTextAsClaimed ==
    (last.op = "convert_to_rule_text" /\ ScenarioBuilt) =>
        last.ret = <<"I","F"," ","p","r","o","b","l","e","m"," ","i","s"," ","'","T","e","m","p"," ","h","i","g","h","'"," ","A","N","D"," ","c","h","e","c","k"," ","s","h","o","w","s"," ","'","S","e","n","s","o","r"," ","c","h","e","c","k","'"," ","A","N","D"," ","T","e","m","p",">","9","0",",","\n","T","H","E","N","\n"," "," ","1","."," ","A","p","p","l","y"," ","c","o","o","l","i","n","g">>

\* the nodes that are not actions and have no outgoing edge
DeadEnds(ns, conns) ==
    {i \in DOMAIN ns :
        /\ ns[i].node_type # "action"
        /\ \A k \in DOMAIN conns : conns[k][1] # ns[i].node_id}

\* C21: validate()['structure'] is empty exactly when the pathway has a
\* problem node and an action node, every node without outgoing edge is an
\* action node and there is no directed cycle; it holds one 'ends pathway
\* without an action' issue for each non-action node without outgoing edge
\* and none for any other node; validate() returns its issues and leaves
\* the nodes and the edges as they are.
C21_StructureIssues ==
    [][ last'.op = "validate" =>
          LET found == last'.ret.structure
              ends == SelectSeq(found,
                          LAMBDA m : m.msg = "ends pathway without an action")
          IN  /\ UNCHANGED <<nodes, connections>>
              /\ found = <<>> <=>
                     /\ \E i \in DOMAIN nodes : nodes[i].node_type = "problem"
                     /\ \E i \in DOMAIN nodes : nodes[i].node_type = "action"
                     /\ DeadEnds(nodes, connections) = {}
                     /\ ~HasDirectedCycle(connections)
              /\ Len(ends) = Cardinality(DeadEnds(nodes, connections))
              /\ \A i \in DeadEnds(nodes, connections) :
                     \E k \in DOMAIN ends :
                         /\ ends[k].node = IdPrefix(nodes[i].node_id)
                         /\ ends[k].type
                                = Capitalize(TypeText(nodes[i].node_type)) ]_vars

\* a problem node connected to an action node has been validated: no issue
C21_Witness ==
    /\ last.op = "validate"
    /\ last.ret.structure = <<>>
    /\ Len(nodes) = 2
    /\ connections = << <<1, 2>> >>

(***************************************************************************)
(* Loading a pathway: DiagnosticPathway.from_dict.                         *)
(***************************************************************************)
\* DiagnosticNode.from_dict for node data with the keys node_type, content
\* and connections, the node id being the key of the node in the data
NodeFromDict(node_data) ==
    [NewNode(node_data.node_id, node_data.node_type, [x |-> 0, y |-> 0])
        EXCEPT !.content = node_data.content,
               !.connections = node_data.connections]

\* the node types of the data that DiagnosticNode.__init__ rejects, in the
\* order of the data
InvalidTypes(data) ==
    LET bad == SelectSeq(data.nodes, LAMBDA d : d.node_type \notin VALID_TYPES)
    IN  [i \in DOMAIN bad |-> bad[i].node_type]

\* for source_id, target_id in pathway.connections: add the target to the
\* source node's connections when it is not there
RECURSIVE LoadConnections(_, _, _)
LoadConnections(ns, conns, i) ==
    IF i > Len(conns) THEN ns
    ELSE LoadConnections(
             [k \in DOMAIN ns |->
                 IF ns[k].node_id = conns[i][1]
                    /\ conns[i][2] \notin Range(ns[k].connections)
                 THEN [ns[k] EXCEPT !.connections =
                           add_connection(@, conns[i][2])]
                 ELSE ns[k]],
             conns, i + 1)

RECURSIVE MaxId(_)
MaxId(ns) == IF ns = <<>> THEN 0 ELSE Max(Head(ns).node_id, MaxId(Tail(ns)))

\* DiagnosticPathway.from_dict(data): the pathway of the model becomes the
\* loaded pathway, or the ValueError of the first invalid node is raised
from_dict(data) ==
    /\ IF InvalidTypes(data) # <<>>
       THEN /\ last' = Call("from_dict", data, 0,
                            InvalidNodeType(InvalidTypes(data)[1]))
            /\ UNCHANGED <<nodes, connections, issued>>
       ELSE /\ nodes' = LoadConnections(
                            [i \in DOMAIN data.nodes |-> NodeFromDict(data.nodes[i])],
                            data.connections, 1)
            /\ connections' = data.connections
            /\ issued' = Max(issued, MaxId(nodes'))
            /\ last' = Call("from_dict", data, 0, Return(0))
    /\ before' = NoBefore
    /\ UNCHANGED <<ruleVars, serviceVars, copy>>

\* the node types and the graph data the calls are made with
LoadTypes == {"problem", "symptom"}
LoadEdges == { <<>>, << <<1, 1>> >>, << <<1, 2>> >> }
LoadNodes ==
    UNION { { ns \in [1..k -> [node_id : 1..k, node_type : LoadTypes,
                               content : {<<>>},
                               connections : {<<>>}]] :
                \A i \in 1..k : ns[i].node_id = i } : k \in 0..MaxIds }
LoadData == [nodes : LoadNodes, connections : LoadEdges]

NextLoad ==
    \/ /\ issued < MaxIds
       /\ \E ty \in LoadTypes : add_node(ty)
    \/ \E data \in LoadData : from_dict(data)

SpecLoad == InitPathway /\ [][NextLoad]_vars

\* C11: add_node with a type outside {problem, check, condition, action}
\* raises an error naming the invalid type, creates no node and leaves nodes
\* and edges unchanged; from_dict on graph data containing such a node type
\* raises the same error.
C11_UnknownNodeType ==
    [][ /\ (last'.op = "add_node"
            /\ last'.a \notin {"problem", "check", "condition", "action"})
           => /\ last'.ret.raised
              /\ last'.ret.named = last'.a
              /\ UNCHANGED <<nodes, connections>>
        /\ (last'.op = "from_dict"
            /\ \E i \in DOMAIN last'.a.nodes :
                   last'.a.nodes[i].node_type
                       \notin {"problem", "check", "condition", "action"})
           => /\ last'.ret.raised
              /\ last'.ret.error = "ValueError: Invalid node type"
              /\ \E i \in DOMAIN last'.a.nodes :
                     /\ last'.ret.named = last'.a.nodes[i].node_type
                     /\ last'.ret.named
                            \notin {"problem", "check", "condition", "action"}
              /\ UNCHANGED <<nodes, connections>> ]_vars

\* an unknown type has been refused on a pathway that has a node and an edge
C11_Witness ==
    /\ last.op = "add_node"
    /\ last.a = "symptom"
    /\ last.ret.raised
    /\ Len(nodes) = 1
    /\ connections = << <<1, 1>> >>

(***************************************************************************)
(* The boolean shorthand: one condition is written, one segment is parsed. *)
(***************************************************************************)
\* Rule._parse_condition applied to a segment
parse_segment(segment) ==
    /\ last' = Call("_parse_condition", segment, 0, parse_condition(segment))
    /\ UNCHANGED <<ruleVars, pathwayVars, serviceVars>>

\* the conditions and the segments the calls are made with
ShorthandConditions ==
    [param : { <<"a">>, <<"a"," ","b">> }, operator : { <<"=">>, <<">">> },
     value : { <<"t","r","u","e">> }, connector : { <<>> }]
SegmentChars == {"a", "b", " ", "="}
Segments == UNION { [1..k -> SegmentChars] : k \in 0..MaxSegmentLen }

NextShorthand ==
    \/ \E c \in ShorthandConditions : set_conditions(<<c>>)
    \/ \E segment \in Segments : parse_segment(segment)

SpecShorthand == InitSeq /\ [][NextShorthand]_vars

\* the operators a condition segment is searched for
OperatorSubstrings ==
    { <<"=">>, <<">">>, <<"<">>, <<">","=">>, <<"<","=">>, <<"!","=">>, <<"c","o","n","t","a","i","n","s">> }

\* a segment in which no operator occurs
Bare(segment) == \A op \in OperatorSubstrings : ~Contains(segment, op)

\* a single condition with operator '=' and value 'true' is written as its
\* bare param
ShorthandWritten ==
    (/\ last.op = "set_conditions"
     /\ Len(conditions) = 1
     /\ conditions[1].operator = <<"=">>
     /\ conditions[1].value = <<"t","r","u","e">>)
    => text = <<"I","F"," ">> \o conditions[1].param \o <<",","\n","T","H","E","N">>

\* C12: a condition with operator '=' and value 'true' is serialized as its
\* bare param, and parsing a bare segment that contains no operator
\* substring and is not blank yields param = the segment without its
\* leading and trailing whitespace, operator = '=', value = 'true'; a blank
\* segment yields no condition.
C12_BooleanShorthand ==
    /\ ShorthandWritten
    /\ (last.op = "_parse_condition" /\ Bare(last.a))
       => IF \A i \in DOMAIN last.a : last.a[i] = " "
          THEN last.ret.none
          ELSE /\ ~last.ret.none
               /\ last.ret.param = Strip(last.a)
               /\ last.ret.operator = <<"=">>
               /\ last.ret.value = <<"t","r","u","e">>

\* a bare segment with a space inside has been parsed
C12_Witness ==
    /\ last.op = "_parse_condition"
    /\ last.a = <<"a"," ","b">>
    /\ ~last.ret.none
    /\ last.ret.param = <<"a"," ","b">>

\* C12 as stated: the param is exactly the segment
C12_ShorthandAsClaimed ==
    /\ ShorthandWritten
    /\ (last.op = "_parse_condition" /\ Bare(last.a))
       => /\ ~last.ret.none
          /\ last.ret.param = last.a
          /\ last.ret.operator = <<"=">>
          /\ last.ret.value = <<"t","r","u","e">>

(***************************************************************************)
(* Operators: segments made of operator characters and words are parsed.   *)
(***************************************************************************)
OperatorTokens == { <<"a">>, <<" ">>, <<"=">>, <<">">>, <<"<">>, <<"!">>, <<"c","o","n","t","a","i","n","s">> }
TokenSegments ==
    { Join(tokens, <<>>) : tokens \in ListsUpTo(OperatorTokens, MaxTokens) }

\* a rule and the segment that is going to be parsed
InitOperators ==
    /\ RuleInit(<<>>)
    /\ NoPathway
    /\ NoServices
    /\ \E segment \in TokenSegments : last = Call("segment", segment, 0, FALSE)

NextOperators == last.op = "segment" /\ parse_segment(last.a)

SpecOperators == InitOperators /\ [][NextOperators]_vars

\* the operators of the order that occur in the text
Occurring(order, t) == {k \in DOMAIN order : Contains(t, order[k])}

\* the result of the latest _parse_condition is the split of the trimmed
\* segment at the first occurrence of the first operator of the order that
\* occurs in it; a segment with '>=', '<=' or '!=' is not split on a
\* one-character operator
ParsedInOrder(order) ==
    LET t == Strip(last.a)
        k == CHOOSE k \in Occurring(order, t) :
                 \A j \in Occurring(order, t) : k <= j
        at == Find(t, order[k])
    IN  (last.op = "_parse_condition" /\ Occurring(order, t) # {}) =>
            /\ ~last.ret.none
            /\ last.ret.operator = order[k]
            /\ last.ret.param = Strip(SubSeq(t, 1, at - 1))
            /\ last.ret.value = Strip(From(t, at + Len(order[k])))
            /\ (\E op \in { <<">","=">>, <<"<","=">>, <<"!","=">> } : Contains(t, op))
                   => last.ret.operator \notin { <<"=">>, <<">">>, <<"<">> }

\* C27: a condition segment is parsed by trying the operators in the order
\* 'contains', '>=', '<=', '!=', '=', '>', '<' (longest first): the first
\* operator of this order that occurs in the segment becomes the operator
\* and the segment is split once at its first occurrence into trimmed param
\* and value; a segment containing '>=', '<=' or '!=' is never split on
\* '=', '>' or '<'.
C27_OperatorOrder ==
    ParsedInOrder(<< <<"c","o","n","t","a","i","n","s">>, <<">","=">>, <<"<","=">>, <<"!","=">>,
                     <<"=">>, <<">">>, <<"<">> >>)

\* a segment with '>=' before 'contains' has been split at 'contains'
C27_Witness ==
    /\ last.op = "_parse_condition"
    /\ last.a = <<">","=","c","o","n","t","a","i","n","s">>
    /\ last.ret.operator = <<"c","o","n","t","a","i","n","s">>
    /\ last.ret.param = <<">","=">>

\* C27 as stated: '>=', '<=' and '!=' are tried before 'contains'
C27_OperatorOrderAsClaimed ==
    ParsedInOrder(<< <<">","=">>, <<"<","=">>, <<"!","=">>, <<"c","o","n","t","a","i","n","s">>,
                     <<"=">>, <<">">>, <<"<">> >>)

(***************************************************************************)
(* SearchService: the list of recent searches.                             *)
(***************************************************************************)
MAX_RECENT_SEARCHES == 10

\* _add_to_recent_searches that keeps the older entry of the query
add_to_recent_searches_keeping(recent, query) ==
    LET inserted == <<query>> \o recent
    IN  IF Len(inserted) > MAX_RECENT_SEARCHES
        THEN SubSeq(inserted, 1, MAX_RECENT_SEARCHES)
        ELSE inserted

\* SearchService._add_to_recent_searches: the list afterwards
add_to_recent_searches(recent, query) ==
    LET removed == IF query \in Range(recent)
                   THEN RemoveFirst(recent, query) ELSE recent
        inserted == <<query>> \o removed
    IN  IF Len(inserted) > MAX_RECENT_SEARCHES
        THEN SubSeq(inserted, 1, MAX_RECENT_SEARCHES)
        ELSE inserted

\* SearchService.search, as far as the recent searches go
search(query) ==
    /\ recent_searches' =
           IF query # <<>> /\ Strip(query) # <<>>
           THEN add_to_recent_searches(recent_searches, Strip(query))
           ELSE recent_searches
    /\ last' = Call("search", query, 0, FALSE)
    /\ UNCHANGED <<rules, ruleVars, pathwayVars>>

clear_recent_searches ==
    /\ recent_searches' = <<>>
    /\ last' = Call("clear_recent_searches", 0, 0, FALSE)
    /\ UNCHANGED <<rules, ruleVars, pathwayVars>>

\* the queries: one letter each, one more letter than the list can hold; a
\* query that is repeated is typed with blanks around it
SearchLetters == <<"a","b","c","d","e","f","g","h","i","j","k">>
LetterIndex(c) == CHOOSE i \in DOMAIN SearchLetters : SearchLetters[i] = c
Padded(c) == <<" ", c, " ">>
BlankQueries == { <<>>, <<" ","\t">> }

\* the letter after the latest letter of the list, if there is one
NextLetters(recent) ==
    LET used == {LetterIndex(recent[i][1]) : i \in DOMAIN recent}
        latest == IF used = {} THEN 0
                  ELSE CHOOSE u \in used : \A v \in used : v <= u
    IN  IF latest < Len(SearchLetters) THEN {SearchLetters[latest + 1]}
        ELSE {}

\* the number of entries that are older than the entry after them would be
\* had no query been repeated
Repeats(recent) ==
    Cardinality({i \in 1..(Len(recent) - 1) :
                    LetterIndex(recent[i][1]) < LetterIndex(recent[i + 1][1])})

NextSearch ==
    \/ \E c \in NextLetters(recent_searches) : search(<<c>>)
    \/ /\ Repeats(recent_searches) < MaxMoves
       /\ \E i \in DOMAIN recent_searches :
              search(Padded(recent_searches[i][1]))
    \/ \E query \in BlankQueries : search(query)
    \/ clear_recent_searches

SpecSearch == InitPathway /\ [][NextSearch]_vars

\* C13: the recent searches hold no query twice and at most 10 entries; a
\* search puts its stripped query first, before the other entries in their
\* old order; searching a query of the list leaves the length unchanged; a
\* blank or whitespace-only query is not recorded; clear_recent_searches
\* empties the list.
C13_RecentSearches ==
    [][ /\ \A i, j \in DOMAIN recent_searches' :
               recent_searches'[i] = recent_searches'[j] => i = j
        /\ Len(recent_searches') <= 10
        /\ last'.op = "search" =>
               IF \A i \in DOMAIN last'.a : last'.a[i] \in {" ", "\t", "\n"}
               THEN recent_searches' = recent_searches
               ELSE LET query == Strip(last'.a)
                        others == SelectSeq(recent_searches,
                                            LAMBDA q : q # query)
                    IN  /\ recent_searches'[1] = query
                        /\ Tail(recent_searches') =
                               SubSeq(others, 1,
                                      IF Len(others) < 9 THEN Len(others) ELSE 9)
                        /\ query \in Range(recent_searches)
                               => Len(recent_searches') = Len(recent_searches)
        /\ last'.op = "clear_recent_searches" => recent_searches' = <<>> ]_vars

\* the oldest query of a full list has been searched again
C13_Witness ==
    /\ last.op = "search"
    /\ Len(recent_searches) = 10
    /\ recent_searches[1] = <<"a">>
    /\ recent_searches[2] = <<"j">>
    /\ recent_searches[10] = <<"b">>

(***************************************************************************)
(* Collection.import_rules.                                                *)
(***************************************************************************)
\* the rule ids of the collection, and the place of a rule id in it
RuleIds(rs) == {rs[i].rule_id : i \in DOMAIN rs}
RuleIndex(rs, rule_id) == CHOOSE i \in DOMAIN rs : rs[i].rule_id = rule_id

\* Collection.add_rule and Collection.update_rule: self.rules[rule_id] = rule
add_rule(rs, rule) ==
    IF rule.rule_id \in RuleIds(rs)
    THEN [rs EXCEPT ![RuleIndex(rs, rule.rule_id)] = rule]
    ELSE Append(rs, rule)

update_rule(rs, rule) ==
    IF rule.rule_id \in RuleIds(rs)
    THEN [rs EXCEPT ![RuleIndex(rs, rule.rule_id)] = rule]
    ELSE rs

\* for rule_data in rules_to_import: update and count, or add and count
RECURSIVE ImportEach(_, _, _)
ImportEach(rules_to_import, i, st) ==
    IF i > Len(rules_to_import) THEN st
    ELSE LET rule == rules_to_import[i]
         IN  ImportEach(rules_to_import, i + 1,
                 IF rule.rule_id \in RuleIds(st.rules)
                 THEN [rules |-> update_rule(st.rules, rule),
                       added |-> st.added, updated |-> st.updated + 1]
                 ELSE [rules |-> add_rule(st.rules, rule),
                       added |-> st.added + 1, updated |-> st.updated])

\* Collection.import_rules(rules_data) for a list of rule dicts
import_rules(rules_data) ==
    LET done == ImportEach(rules_data, 1,
                           [rules |-> rules, added |-> 0, updated |-> 0])
    IN  /\ rules' = done.rules
        /\ last' = Call("import_rules", rules_data, 0,
                        [added |-> done.added, updated |-> done.updated])
        /\ UNCHANGED <<recent_searches, ruleVars, pathwayVars>>

\* the rule dicts that are imported
ImportedRules == [rule_id : {"r1", "r2"}, text : {"A", "B"}]

NextImport ==
    \E rules_data \in ListsUpTo(ImportedRules, MaxImport) :
        import_rules(rules_data)

SpecImport == InitPathway /\ [][NextImport]_vars

\* C14: import_rules returns (added, updated) where added is the number of
\* imported rules whose id was not yet in the collection; importing rules
\* whose ids are all present and of which exactly one differs from the
\* stored rule returns added = 0 and updated = 1 and leaves the number of
\* rules unchanged.
C14_ImportCounts ==
    [][ (/\ last'.op = "import_rules"
         /\ \A i, j \in DOMAIN last'.a :
                last'.a[i].rule_id = last'.a[j].rule_id => i = j)
        => LET data == last'.a
               present == {rules[i].rule_id : i \in DOMAIN rules}
               changed == {i \in DOMAIN data :
                              \A k \in DOMAIN rules : rules[k] # data[i]}
           IN  /\ last'.ret.added =
                      Cardinality({i \in DOMAIN data :
                                      data[i].rule_id \notin present})
               /\ (/\ \A i \in DOMAIN data : data[i].rule_id \in present
                   /\ Cardinality(changed) = 1)
                  => /\ last'.ret.added = 0
                     /\ last'.ret.updated = 1
                     /\ Len(rules') = Len(rules) ]_vars

(***************************************************************************)
(* Conversion of a graph: four nodes with a content each are connected,    *)
(* each edge between two different nodes, and converted.                   *)
(***************************************************************************)
ConvertTypes == <<"problem", "check", "action", "action">>
ConvertLabels == << <<"n","1">>, <<"n","2">>, <<"n","3">>, <<"n","4">> >>

\* every node has been given its content
Labelled(ns) == \A i \in DOMAIN ns : ns[i].content # <<>>

NextConvert ==
    \/ /\ issued < Len(ConvertTypes)
       /\ Labelled(nodes)
       /\ add_node(ConvertTypes[issued + 1])
    \/ \E id \in DOMAIN ConvertLabels :
           /\ id \in NodeIds(nodes)
           /\ NodeOf(nodes, id).content = <<>>
           /\ set_content(id, ConvertLabels[id])
    \/ /\ Len(nodes) = Len(ConvertTypes)
       /\ Labelled(nodes)
       /\ Len(connections) < MaxConvertEdges
       /\ \E s \in NodeIds(nodes) :
              \E t \in NodeIds(nodes) \ {s} : connect_nodes(s, t)
    \/ convert

SpecConvert == InitPathway /\ [][NextConvert]_vars

(***************************************************************************)
(* Claims about the conversion of a graph.                                 *)
(***************************************************************************)
\* the phrases of the IF part of a rule text, in order
IfPhrases(t) ==
    LET body == From(SplitOnce(t, <<",","\n","T","H","E","N">>)[1], Len(<<"I","F"," ">>) + 1)
    IN  IF body = <<>> THEN <<>> ELSE Split(body, <<" ","A","N","D"," ">>)

\* the numbered lines of the THEN part, and their phrases without the number
ThenLinesOf(t) == Tail(Split(SplitOnce(t, <<",","\n","T","H","E","N">>)[2], <<"\n"," "," ">>))
ThenPhrases(t) ==
    [i \in DOMAIN ThenLinesOf(t) |->
        From(ThenLinesOf(t)[i], Find(ThenLinesOf(t)[i], <<"."," ">>) + 2)]

\* how often x occurs in the list
RECURSIVE Occurrences(_, _)
Occurrences(list, x) ==
    IF list = <<>> THEN 0
    ELSE (IF Head(list) = x THEN 1 ELSE 0) + Occurrences(Tail(list), x)

\* the list without the repetitions of an earlier entry
RECURSIVE FirstOccurrences(_)
FirstOccurrences(list) ==
    IF list = <<>> THEN <<>>
    ELSE LET front == FirstOccurrences(SubSeq(list, 1, Len(list) - 1))
         IN  IF list[Len(list)] \in Range(front) THEN front
             ELSE Append(front, list[Len(list)])

\* the starting nodes as the specification names them, in insertion order
NoIncoming(ns, conns) ==
    SelectSeq(NodeIdList(ns),
              LAMBDA id : \A i \in DOMAIN conns : conns[i][2] # id)
ProblemIds(ns) ==
    SelectSeq(NodeIdList(ns),
              LAMBDA id : \E i \in DOMAIN ns :
                  ns[i].node_id = id /\ ns[i].node_type = "problem")
ClaimedStarts(ns, conns) ==
    IF NoIncoming(ns, conns) # <<>> THEN NoIncoming(ns, conns)
    ELSE IF ProblemIds(ns) # <<>> THEN ProblemIds(ns)
    ELSE IF ns # <<>> THEN << NodeIdList(ns)[1] >>
    ELSE <<>>

\* pre-order depth-first order with a stack: the node on top is emitted
\* unless it was emitted before, and replaced by its children in the order
\* of their edges
RECURSIVE PreOrder(_, _, _, _)
PreOrder(conns, stack, seen, out) ==
    IF stack = <<>> THEN out
    ELSE IF Head(stack) \in seen
         THEN PreOrder(conns, Tail(stack), seen, out)
         ELSE PreOrder(conns,
                       EdgeTargets(conns, Head(stack), 1) \o Tail(stack),
                       seen \cup {Head(stack)}, Append(out, Head(stack)))

\* the phrases of the nodes of a list of ids that are (or are not) actions
PhrasesOf(ns, ids, ofActions) ==
    LET kept == SelectSeq(ids, LAMBDA id :
                    (NodeOf(ns, id).node_type = "action") = ofActions)
    IN  [i \in DOMAIN kept |-> NodePhrase(NodeOf(ns, kept[i]))]

\* C17: in convert_to_rule_text every node is processed at most once over
\* the whole conversion: no node's phrase occurs more than once in the
\* output, also when the node is reachable from two starting nodes.
C17_ProcessedOnce ==
    last.op = "convert_to_rule_text" =>
        \A i \in DOMAIN nodes :
            Occurrences(IfPhrases(last.ret) \o ThenPhrases(last.ret),
                        NodePhrase(nodes[i])) <= 1

\* C18: the phrases of convert_to_rule_text's output come in the pre-order
\* depth-first order of the nodes: starting nodes in insertion order, a node
\* before its descendants, children in the order their edges were created;
\* the IF part holds the phrases of the problem, check and condition nodes
\* and the numbered THEN part those of the action nodes, each in this order
\* (the order of the first occurrence of each phrase).
C18_PreOrderPhrases ==
    last.op = "convert_to_rule_text" =>
        LET order == PreOrder(connections,
                              ClaimedStarts(nodes, connections), {}, <<>>)
        IN  /\ FirstOccurrences(IfPhrases(last.ret))
                   = PhrasesOf(nodes, order, FALSE)
            /\ FirstOccurrences(ThenPhrases(last.ret))
                   = PhrasesOf(nodes, order, TRUE)
            /\ \A i \in DOMAIN ThenLinesOf(last.ret) :
                   StartsWith(ThenLinesOf(last.ret)[i], IntToStr(i) \o <<"."," ">>)

\* node 1 has the children 2 and 3 in this order and node 2 the child 4:
\* the phrase of 4 comes before that of 3
C18_Witness ==
    /\ last.op = "convert_to_rule_text"
    /\ connections = << <<1, 2>>, <<2, 4>>, <<1, 3>> >>
    /\ last.ret = <<"I","F"," ","p","r","o","b","l","e","m"," ","i","s"," ","'","n","1","'"," ","A","N","D"," ","V","i","s","u","a","l"," ","I","n","s","p","e","c","t","i","o","n"," ","s","h","o","w","s"," ","'","n","2","'",",","\n","T","H","E","N","\n"," "," ","1","."," ","A","d","j","u","s","t","m","e","n","t",":"," ","n","4","\n"," "," ","2","."," ","A","d","j","u","s","t","m","e","n","t",":"," ","n","3">>


\* C19: the starting nodes of convert_to_rule_text are exactly the nodes
\* with no incoming edge; when every node has an incoming edge they are all
\* the problem nodes; when there is no problem node either, the first node
\* in insertion order alone; an empty pathway has no starting node and
\* converts to 'IF ,\nTHEN'.  The output holds the phrases of the nodes
\* reachable from these starting nodes, that of the first one first.
C19_StartingNodes ==
    last.op = "convert_to_rule_text" =>
        LET starts == ClaimedStarts(nodes, connections)
            reached == Closure(Range(connections), Range(starts))
            phrases == IfPhrases(last.ret) \o ThenPhrases(last.ret)
        IN  /\ StartingNodes(nodes, connections) = starts
            /\ nodes = <<>> => last.ret = <<"I","F"," ",",","\n","T","H","E","N">>
            /\ Range(phrases)
                   = {NodePhrase(NodeOf(nodes, id)) : id \in reached}
            /\ nodes # <<>> =>
                   LET first == NodeOf(nodes, starts[1])
                       list == IF first.node_type = "action"
                               THEN ThenPhrases(last.ret)
                               ELSE IfPhrases(last.ret)
                   IN  list[1] = NodePhrase(first)

\* every node has an incoming edge and the only problem node is the second
C19_Witness ==
    /\ last.op = "convert_to_rule_text"
    /\ connections = << <<1, 2>>, <<2, 1>> >>
    /\ last.ret = <<"I","F"," ","p","r","o","b","l","e","m"," ","i","s"," ","'","n","2","'",",","\n","T","H","E","N","\n"," "," ","1","."," ","A","d","j","u","s","t","m","e","n","t",":"," ","n","1">>

(***************************************************************************)
(* Starting nodes: nodes of either type with a content are connected, also *)
(* in cycles, and converted.                                               *)
(***************************************************************************)
NextStarts ==
    \/ /\ issued < MaxIds
       /\ Labelled(nodes)
       /\ \E ty \in EditTypes : add_node(ty)
    \/ \E id \in IdArgs :
           /\ id \in NodeIds(nodes)
           /\ NodeOf(nodes, id).content = <<>>
           /\ set_content(id, ConvertLabels[id])
    \/ /\ Len(connections) < MaxEdges
       /\ Labelled(nodes)
       /\ \E s \in IdArgs, t \in IdArgs : connect_nodes(s, t)
    \/ convert

SpecStarts == InitPathway /\ [][NextStarts]_vars

(***************************************************************************)
(* Cycle detection: three nodes are connected and validated.               *)
(***************************************************************************)
CycleTypes == <<"problem", "check", "action">>

NextCycles ==
    \/ /\ issued < Len(CycleTypes)
       /\ add_node(CycleTypes[issued + 1])
    \/ /\ Len(nodes) = Len(CycleTypes)
       /\ Len(connections) < MaxCycleEdges
       /\ \E s \in NodeIds(nodes), t \in NodeIds(nodes) : connect_nodes(s, t)
    \/ validate

SpecCycles == InitPathway /\ [][NextCycles]_vars

\* the simple directed cycles of the graph, each written from its smallest
\* node on
SimpleCycles(ids, conns) ==
    { p \in UNION { [1..k -> ids] : k \in 1..Cardinality(ids) } :
        /\ \A i, j \in DOMAIN p : p[i] = p[j] => i = j
        /\ \A i \in DOMAIN p : p[1] <= p[i]
        /\ \A i \in 1..(Len(p) - 1) : <<p[i], p[i + 1]>> \in Range(conns)
        /\ <<p[Len(p)], p[1]>> \in Range(conns) }

\* the reported cycle c is the cycle p, started at any of its nodes
SameCycle(c, p) ==
    /\ Len(c) = Len(p)
    /\ \E k \in 0..(Len(p) - 1) :
           \A i \in DOMAIN p : c[i] = p[((i + k - 1) % Len(p)) + 1]

\* C20: _detect_cycles returns every simple directed cycle of the graph at
\* least once, so the N of the 'Pathway contains N cycle(s)' message is
\* never lower than the number of distinct simple cycles.
C20_AllCyclesReported ==
    last.op = "validate" =>
        LET cycles == detect_cycles(nodes, connections)
            simple == SimpleCycles(NodeIds(nodes), connections)
        IN  /\ \A p \in simple :
                   \E i \in DOMAIN cycles : SameCycle(cycles[i], p)
            /\ simple # {} =>
                   /\ CycleIssues(last.ret) # <<>>
                   /\ CycleIssues(last.ret)[1].n >= Cardinality(simple)


(***************************************************************************)
(* Structured data: the pathways of SpecStarts are also converted to       *)
(* structured data.                                                        *)
(***************************************************************************)
NextStructured ==
    \/ NextStarts
    \/ convert_structured

SpecStructured == InitPathway /\ [][NextStructured]_vars

\* C25: convert_to_structured_data returns one condition per condition
\* phrase collected by the traversal, in order, each with operator '=' and
\* value 'true', connector 'AND' on all but the last and '' on the last, and
\* one action per action phrase, in order, with the sequences 1..n; a
\* pathway without problem, check and condition node and the empty pathway
\* have zero conditions.
C25_StructuredData ==
    last.op = "convert_to_structured_data" =>
        LET done == ProcessStarts(nodes, connections,
                        StartingNodes(nodes, connections), 1,
                        [conditions |-> <<>>, actions |-> <<>>,
                         visited |-> {}])
            conds == last.ret.conditions
            acts == last.ret.actions
        IN  /\ Len(conds) = Len(done.conditions)
            /\ \A i \in DOMAIN conds :
                   conds[i] = [param |-> done.conditions[i],
                               operator |-> <<"=">>, value |-> <<"t","r","u","e">>,
                               connector |-> IF i < Len(conds) THEN <<"A","N","D">>
                                             ELSE <<>>]
            /\ Len(acts) = Len(done.actions)
            /\ \A i \in DOMAIN acts :
                   /\ acts[i].sequence = i
                   /\ done.actions[i]
                          \in {acts[i].target,
                               acts[i].type \o <<":"," ">> \o acts[i].target}


(***************************************************************************)
(* Layout: nodes are added, removed and connected, and laid out.           *)
(***************************************************************************)
NextLayout ==
    \/ /\ issued < MaxIds
       /\ \E ty \in VALID_TYPES : add_node(ty)
    \/ \E id \in IdArgs : remove_node(id)
    \/ /\ Len(connections) < MaxEdges
       /\ \E s \in IdArgs : connect_nodes(s, (s % MaxIds) + 1)
    \/ auto_layout

SpecLayout == InitPathway /\ [][NextLayout]_vars

\* the column of a node type
ColumnOf(node_type) ==
    CASE node_type = "problem" -> 0
      [] node_type = "check" -> 1
      [] node_type = "condition" -> 2
      [] node_type = "action" -> 3

\* C26: auto_layout places the k-th node (k = 0, 1, ..) of each type at
\* x = initial_x + column(type) * (column_width + column_margin), with the
\* columns problem 0, check 1, condition 2, action 3, and
\* y = initial_y + k * (120 + node_margin), so that nodes of different types
\* get different x; it leaves the node set, the contents, the edge list and
\* every connections list unchanged, and a second auto_layout changes
\* nothing.
C26_AutoLayout ==
    [][ last'.op = "auto_layout" =>
          /\ Len(nodes') = Len(nodes)
          /\ \A i \in DOMAIN nodes :
                 /\ nodes'[i] = [nodes[i] EXCEPT !.position = nodes'[i].position]
                 /\ nodes'[i].position.x
                        = initial_x + ColumnOf(nodes[i].node_type)
                                        * (column_width + column_margin)
                 /\ nodes'[i].position.y
                        = initial_y
                            + Cardinality({k \in 1..(i - 1) :
                                  nodes[k].node_type = nodes[i].node_type})
                              * (LayoutNodeHeight + node_margin)
          /\ \A i, j \in DOMAIN nodes :
                 nodes[i].node_type # nodes[j].node_type
                     => nodes'[i].position.x # nodes'[j].position.x
          /\ connections' = connections
          /\ last.op = "auto_layout" => nodes' = nodes ]_vars

\* the second node of a type, left alone by remove_node, has been moved to
\* the top of its column
C26_Witness ==
    /\ last.op = "auto_layout"
    /\ Len(nodes) = 1
    /\ nodes[1].node_id = 2
    /\ nodes[1].node_type = "action"
    /\ nodes[1].position
           = [x |-> initial_x + 3 * (column_width + column_margin),
              y |-> initial_y]


(***************************************************************************)
(* Loading from JSON: the connections of the data are two-element lists.   *)
(* A Python list [s, t] is never equal to the tuple (s, t); the model      *)
(* writes the list as <<s, t, "list">> and the tuple as <<s, t>>.          *)
(***************************************************************************)
ListPair(s, t) == <<s, t, "list">>

JsonNodes ==
    << [node_id |-> 1, node_type |-> "problem", content |-> <<>>,
        connections |-> <<>>],
       [node_id |-> 2, node_type |-> "action", content |-> <<>>,
        connections |-> <<>>] >>
JsonData ==
    [nodes : {JsonNodes},
     connections : { <<>>, << ListPair(1, 2) >>,
                     << ListPair(1, 2), ListPair(2, 1) >> }]

NextJson ==
    \/ \E data \in JsonData : from_dict(data)
    \/ /\ Len(connections) < MaxEdges + 1
       /\ \E s \in IdArgs, t \in IdArgs : connect_nodes(s, t)
    \/ \E s \in IdArgs, t \in IdArgs : disconnect_nodes(s, t)

SpecJson == InitPathway /\ [][NextJson]_vars

\* the edge from s to t is in the edge list
HasEdge(conns, s, t) ==
    \E i \in DOMAIN conns : conns[i][1] = s /\ conns[i][2] = t

\* C28: on a pathway loaded with from_dict from data whose connections are
\* [source_id, target_id] lists, connect_nodes on an edge that is present
\* returns False and adds no second copy, and disconnect_nodes on a present
\* edge returns True and removes it from the edge list and from the source
\* node's connections list.
C28_LoadedEdgeRules ==
    [][ /\ (last'.op = "connect_nodes"
               /\ HasEdge(connections, last'.a, last'.b))
           => (last'.ret = FALSE /\ connections' = connections)
        /\ (last'.op = "disconnect_nodes"
               /\ HasEdge(connections, last'.a, last'.b))
           => /\ last'.ret = TRUE
              /\ ~HasEdge(connections', last'.a, last'.b)
              /\ \A i \in DOMAIN nodes' :
                     nodes'[i].node_id = last'.a
                         => last'.b \notin Range(nodes'[i].connections) ]_vars


(***************************************************************************)
(* Traversal: three nodes of different types are connected, self-loops and *)
(* cycles included, and converted.                                         *)
(***************************************************************************)
NextTraversal ==
    \/ /\ issued < Len(CycleTypes)
       /\ add_node(CycleTypes[issued + 1])
    \/ /\ Len(nodes) = Len(CycleTypes)
       /\ Len(connections) < MaxCycleEdges
       /\ \E s \in NodeIds(nodes), t \in NodeIds(nodes) : connect_nodes(s, t)
    \/ convert

SpecTraversal == InitPathway /\ [][NextTraversal]_vars

\* C29: convert_to_rule_text returns on every pathway, with cycles and
\* self-loops: the traversal started from one starting node processes every
\* node it reaches once and no node more than once, so the number of
\* emitted phrases is at most (number of starting nodes) x (number of
\* nodes).
C29_TraversalBound ==
    last.op = "convert_to_rule_text" =>
        LET starts == ClaimedStarts(nodes, connections)
            phrases == IfPhrases(last.ret) \o ThenPhrases(last.ret)
        IN  /\ Len(phrases) <= Len(starts) * Len(nodes)
            /\ \A i \in DOMAIN nodes :
                   Occurrences(phrases, NodePhrase(nodes[i]))
                       = Cardinality({k \in DOMAIN starts :
                             nodes[i].node_id
                                 \in Closure(Range(connections), {starts[k]})})

\* two starting nodes lead to a node with a self-loop: four phrases
C29_Witness ==
    /\ last.op = "convert_to_rule_text"
    /\ connections = << <<1, 3>>, <<2, 3>>, <<3, 3>> >>
    /\ Len(IfPhrases(last.ret)) = 2
    /\ Len(ThenPhrases(last.ret)) = 2


(***************************************************************************)
(* DiagnosticPathway.duplicate: to_dict hands out self.connections and the *)
(* connections list of every node as they are, and from_dict stores them,  *)
(* so the duplicate holds the list objects of the original.                *)
(***************************************************************************)
\* the edge list and the nodes of the duplicate, read through the lists it
\* shares with the original
DuplicateConnections == IF copy.shares THEN connections ELSE copy.connections

DuplicateNodes ==
    [i \in DOMAIN copy.nodes |->
        IF copy.nodes[i].node_id \in NodeIds(nodes)
        THEN [copy.nodes[i] EXCEPT !.connections =
                  NodeOf(nodes, copy.nodes[i].node_id).connections]
        ELSE copy.nodes[i]]

\* duplicate(): from_dict(self.to_dict()) with a new pathway id. from_dict
\* adds every edge's target to the source node's list, which is the list of
\* the original's node
duplicate ==
    /\ ~copy.made
    /\ nodes' = LoadConnections(nodes, connections, 1)
    /\ copy' = [made |-> TRUE, shares |-> TRUE, nodes |-> nodes',
                connections |-> <<>>]
    /\ last' = Call("duplicate", 0, 0, FALSE)
    /\ before' = NoBefore
    /\ UNCHANGED <<connections, issued, ruleVars, serviceVars>>

\* add_connection and remove_connection on the lists of the nodes of ns
\* with an id of ids
AddToLists(ns, ids, target_node_id) ==
    [i \in DOMAIN ns |->
        IF ns[i].node_id \in ids
        THEN [ns[i] EXCEPT !.connections = add_connection(@, target_node_id)]
        ELSE ns[i]]

RemoveFromLists(ns, ids, target_node_id) ==
    [i \in DOMAIN ns |->
        IF ns[i].node_id \in ids
        THEN [ns[i] EXCEPT !.connections = remove_connection(@, target_node_id)]
        ELSE ns[i]]

\* add_node on the duplicate
copy_add_node(node_type) ==
    /\ copy.made
    /\ copy' = [copy EXCEPT !.nodes =
                   Append(@, NewNode(issued + 1, node_type,
                       calculate_node_position(DuplicateNodes, node_type)))]
    /\ issued' = issued + 1
    /\ last' = Call("copy.add_node", node_type, 0, Return(issued + 1))
    /\ before' = NoBefore
    /\ UNCHANGED <<nodes, connections, ruleVars, serviceVars>>

\* connect_nodes on the duplicate: the append goes to the list object the
\* duplicate holds, and add_connection to the list object of its node
copy_connect_nodes(source_id, target_id) ==
    /\ copy.made
    /\ IF \/ source_id \notin NodeIds(copy.nodes)
          \/ target_id \notin NodeIds(copy.nodes)
          \/ <<source_id, target_id>> \in Range(DuplicateConnections)
       THEN /\ UNCHANGED <<nodes, connections, copy>>
            /\ last' = Call("copy.connect_nodes", source_id, target_id, FALSE)
       ELSE /\ connections' = IF copy.shares
                              THEN Append(connections, <<source_id, target_id>>)
                              ELSE connections
            /\ nodes' = AddToLists(nodes, {source_id}, target_id)
            /\ copy' = [copy EXCEPT
                   !.connections = IF copy.shares THEN @
                                   ELSE Append(@, <<source_id, target_id>>),
                   !.nodes = AddToLists(@, {source_id}, target_id)]
            /\ last' = Call("copy.connect_nodes", source_id, target_id, TRUE)
    /\ before' = NoBefore
    /\ UNCHANGED <<issued, ruleVars, serviceVars>>

\* disconnect_nodes on the duplicate
copy_disconnect_nodes(source_id, target_id) ==
    /\ copy.made
    /\ IF <<source_id, target_id>> \notin Range(DuplicateConnections)
       THEN /\ UNCHANGED <<nodes, connections, copy>>
            /\ last' = Call("copy.disconnect_nodes", source_id, target_id, FALSE)
       ELSE /\ connections' = IF copy.shares
                              THEN RemoveFirst(connections, <<source_id, target_id>>)
                              ELSE connections
            /\ nodes' = RemoveFromLists(nodes,
                            {source_id} \cap NodeIds(copy.nodes), target_id)
            /\ copy' = [copy EXCEPT
                   !.connections = IF copy.shares THEN @
                                   ELSE RemoveFirst(@, <<source_id, target_id>>),
                   !.nodes = RemoveFromLists(@, {source_id}, target_id)]
            /\ last' = Call("copy.disconnect_nodes", source_id, target_id, TRUE)
    /\ before' = NoBefore
    /\ UNCHANGED <<issued, ruleVars, serviceVars>>

\* remove_node on the duplicate: self.connections becomes a new list, and
\* remove_connection changes the lists of the remaining nodes in place
copy_remove_node(node_id) ==
    /\ copy.made
    /\ IF node_id \notin NodeIds(copy.nodes)
       THEN /\ UNCHANGED <<nodes, copy>>
            /\ last' = Call("copy.remove_node", node_id, 0, FALSE)
       ELSE /\ nodes' = RemoveFromLists(nodes, NodeIds(copy.nodes) \ {node_id},
                            node_id)
            /\ copy' = [copy EXCEPT
                   !.shares = FALSE,
                   !.connections = SelectSeq(DuplicateConnections,
                       LAMBDA e : e[1] # node_id /\ e[2] # node_id),
                   !.nodes = StripConnections(
                       SelectSeq(@, LAMBDA n : n.node_id # node_id), node_id)]
            /\ last' = Call("copy.remove_node", node_id, 0, TRUE)
    /\ before' = NoBefore
    /\ UNCHANGED <<connections, issued, ruleVars, serviceVars>>

\* the calls made on the original and on its duplicate, with the ids of
\* nodes and the edges that exist, an edge leading to another node. After duplicate() the original is called
\* with add_node, connect_nodes and disconnect_nodes, and the calls are
\* followed until a remove_node gives the duplicate an edge list of its own
NextDuplicate ==
    /\ copy.made => copy.shares
    /\ \/ /\ issued < MaxIds
          /\ add_node("problem")
       \/ /\ Len(connections) < MaxEdges
          /\ \E s \in NodeIds(nodes) : \E t \in NodeIds(nodes) :
                 s # t /\ connect_nodes(s, t)
       \/ \E e \in Range(connections) : disconnect_nodes(e[1], e[2])
       \/ duplicate
       \/ /\ issued < MaxIds
          /\ copy_add_node("action")
       \/ /\ Len(connections) < MaxEdges
          /\ \E s \in NodeIds(copy.nodes) : \E t \in NodeIds(copy.nodes) :
                 s # t /\ copy_connect_nodes(s, t)
       \/ \E e \in Range(connections) : copy_disconnect_nodes(e[1], e[2])
       \/ \E id \in NodeIds(copy.nodes) : copy_remove_node(id)

SpecDuplicate == InitPathway /\ [][NextDuplicate]_vars

OnDuplicate ==
    {"copy.add_node", "copy.connect_nodes", "copy.disconnect_nodes",
     "copy.remove_node"}
OnOriginal == {"add_node", "connect_nodes", "disconnect_nodes"}

\* C30: the pathway duplicate() returns has the nodes and the edges of the
\* original, a later add_node, connect_nodes, disconnect_nodes or
\* remove_node on the duplicate leaves the original's node map, edge list
\* and every original node's connections list unchanged, and the same calls
\* on the original leave the duplicate's unchanged.
C30_DuplicateIndependent ==
    [][ /\ last'.op = "duplicate" =>
               /\ DuplicateNodes' = nodes
               /\ DuplicateConnections' = connections
               /\ UNCHANGED <<nodes, connections>>
        /\ (copy.made /\ last'.op \in OnDuplicate) =>
               UNCHANGED <<nodes, connections>>
        /\ (copy.made /\ last'.op \in OnOriginal) =>
               /\ DuplicateNodes' = DuplicateNodes
               /\ DuplicateConnections' = DuplicateConnections ]_vars

=============================================================================
